---- MODULE Spec2Model ----
(***************************************************************************)
(* The authentication brokers of fxa-content-server: the base broker's     *)
(* behavior and capability registries, and the OAuth broker's              *)
(* assertion -> code exchange (getOAuthResult, _formatOAuthResult,         *)
(* finishOAuthFlow and the after* hooks built on them).                    *)
(*                                                                         *)
(* JavaScript values are tagged records, so that values of different       *)
(* JavaScript types can be compared: Undefined, Null, Str(s) with s a      *)
(* sequence of tokens (the characters of the string, grouped), Bool(b).    *)
(* Objects and Backbone attribute tables are functions from property       *)
(* names to values; a property that is not in the DOMAIN is absent.        *)
(***************************************************************************)
EXTENDS Integers, Sequences, FiniteSets, TLC

\* ------------------------------------------------------------------ values

Undefined == [t |-> "undefined"]
Null == [t |-> "null"]
Str(s) == [t |-> "string", s |-> s]
Bool(b) == [t |-> "boolean", b |-> b]

\* the empty object literal {}
EmptyObject == [k \in {} |-> Undefined]

\* JavaScript truthiness, as `! x` reads it
Truthy(v) == v \notin {Undefined, Null, Str(<<>>), Bool(FALSE)}

\* obj.name: an absent property reads as undefined
Prop(obj, name) == IF name \in DOMAIN obj THEN obj[name] ELSE Undefined

\* obj.name = value, in place: the object afterwards
PropSet(obj, name, value) ==
    [k \in DOMAIN obj \cup {name} |-> IF k = name THEN value ELSE obj[k]]

\* _.extend(dst, src): every property of src copied onto dst
Extend(dst, src) ==
    [k \in DOMAIN dst \cup DOMAIN src |-> IF k \in DOMAIN src THEN src[k] ELSE dst[k]]

\* a settled promise
Fulfilled(v) == [state |-> "fulfilled", value |-> v]
Rejected(e) == [state |-> "rejected", reason |-> e]
Pending == [state |-> "pending"]

\* errors: AuthErrors.toError(name), OAuthErrors.toError(name), new Error(message)
AuthError(name) == [namespace |-> "auth", error |-> name]
OAuthError(name) == [namespace |-> "oauth", error |-> name]
Error(message) == [namespace |-> "Error", error |-> message]

\* ------------------------------------------------------------ constants

ACCESS_TYPE_OFFLINE == Str(<<"offline">>)
OAUTH_ACTION_SIGNIN == Str(<<"signin">>)
OAUTH_ACTION_SIGNUP == Str(<<"signup">>)

\* ------------------------------------------------------------ behaviors

NullBehavior == [behavior |-> "null"]
HaltBehavior == [behavior |-> "halt"]
NavigateBehavior == [behavior |-> "navigate", endpoint |-> "settings"]

\* ------------------------------------------------------------- lib/url

\* String.prototype.split over token sequences: the pieces of s between
\* the occurrences of sep (one piece, s itself, when sep does not occur)
RECURSIVE split(_, _)
split(s, sep) ==
    IF \A i \in 1..Len(s) : s[i] # sep
    THEN <<s>>
    ELSE LET i == CHOOSE j \in 1..Len(s) :
                      s[j] = sep /\ \A k \in 1..(j - 1) : s[k] # sep
         IN  <<SubSeq(s, 1, i - 1)>> \o split(SubSeq(s, i + 1, Len(s)), sep)

\* array[n] of JavaScript, zero based: undefined past the end
ArrayAt(array, n) == IF n + 1 \in 1..Len(array) THEN Str(array[n + 1]) ELSE Undefined

\* Url.searchParams(str): the table of the name=value pairs of a query
\* string; a later pair of the same name replaces an earlier one.  An
\* absent or empty query string has no parameters.
RECURSIVE searchTerms(_)
searchTerms(pairs) ==
    IF pairs = <<>> THEN EmptyObject
    ELSE LET rest == searchTerms(SubSeq(pairs, 1, Len(pairs) - 1))
             pair == split(pairs[Len(pairs)], "=")
         IN  IF pairs[Len(pairs)] = <<>> THEN rest
             ELSE [k \in DOMAIN rest \cup {pair[1]} |->
                     IF k = pair[1] THEN ArrayAt(pair, 1) ELSE rest[k]]

searchParams(str) ==
    IF ~Truthy(str) THEN EmptyObject ELSE searchTerms(split(str.s, "&"))

\* Url.searchParam(name, str)
searchParam(name, str) == Prop(searchParams(str), name)

\* -------------------------------------------------------- lib/validate

\* the codes that match the OAuth code grammar
GrammarCodes == {Str(<<"c0de1">>), Str(<<"c0de2">>)}

\* Validate.isOAuthCodeValid(code)
isOAuthCodeValid(code) == code \in GrammarCodes

\* ----------------------------------------------- _formatOAuthResult

\* _formatOAuthResult without the validation of the code
formatWithoutCodeValidation(result) ==
    IF ~Truthy(result)
    THEN [promise |-> Rejected(OAuthError("INVALID_RESULT")), object |-> result]
    ELSE IF ~Truthy(Prop(result, "redirect"))
    THEN [promise |-> Rejected(OAuthError("INVALID_RESULT_REDIRECT")), object |-> result]
    ELSE LET redirectParams == ArrayAt(split(result.redirect.s, "?"), 1)
             withState == PropSet(result, "state", searchParam(<<"state">>, redirectParams))
             withCode == PropSet(withState, "code", searchParam(<<"code">>, redirectParams))
         IN  [promise |-> Fulfilled(withCode), object |-> withCode]

\* _formatOAuthResult without the check of the redirect: a result with no
\* redirect has no code either
formatWithoutRedirectCheck(result) ==
    IF ~Truthy(result)
    THEN [promise |-> Rejected(OAuthError("INVALID_RESULT")), object |-> result]
    ELSE LET redirectParams ==
                 IF Truthy(Prop(result, "redirect"))
                 THEN ArrayAt(split(result.redirect.s, "?"), 1)
                 ELSE Undefined
             withState == PropSet(result, "state", searchParam(<<"state">>, redirectParams))
             withCode == PropSet(withState, "code", searchParam(<<"code">>, redirectParams))
         IN  IF ~isOAuthCodeValid(withCode.code)
             THEN [promise |-> Rejected(OAuthError("INVALID_RESULT_CODE")), object |-> withCode]
             ELSE [promise |-> Fulfilled(withCode), object |-> withCode]

\* _formatOAuthResult returning a new {state, code} object
formatIntoFreshObject(result) ==
    IF ~Truthy(result)
    THEN [promise |-> Rejected(OAuthError("INVALID_RESULT")), object |-> result]
    ELSE IF ~Truthy(Prop(result, "redirect"))
    THEN [promise |-> Rejected(OAuthError("INVALID_RESULT_REDIRECT")), object |-> result]
    ELSE LET redirectParams == ArrayAt(split(result.redirect.s, "?"), 1)
             fresh == [state |-> searchParam(<<"state">>, redirectParams),
                       code |-> searchParam(<<"code">>, redirectParams)]
         IN  IF ~isOAuthCodeValid(fresh.code)
             THEN [promise |-> Rejected(OAuthError("INVALID_RESULT_CODE")), object |-> result]
             ELSE [promise |-> Fulfilled(fresh), object |-> result]

\* _formatOAuthResult assigning state and code only once the code is valid
formatAssigningAfterValidation(result) ==
    IF ~Truthy(result)
    THEN [promise |-> Rejected(OAuthError("INVALID_RESULT")), object |-> result]
    ELSE IF ~Truthy(Prop(result, "redirect"))
    THEN [promise |-> Rejected(OAuthError("INVALID_RESULT_REDIRECT")), object |-> result]
    ELSE LET redirectParams == ArrayAt(split(result.redirect.s, "?"), 1)
             withState == PropSet(result, "state", searchParam(<<"state">>, redirectParams))
             withCode == PropSet(withState, "code", searchParam(<<"code">>, redirectParams))
         IN  IF ~isOAuthCodeValid(withCode.code)
             THEN [promise |-> Rejected(OAuthError("INVALID_RESULT_CODE")), object |-> result]
             ELSE [promise |-> Fulfilled(withCode), object |-> withCode]

\* _formatOAuthResult(result): the promise it returns, and the object it
\* was given as the call leaves it (state and code are assigned on the
\* object itself, before the code is validated)
_formatOAuthResult(result) ==
    IF ~Truthy(result)
    THEN [promise |-> Rejected(OAuthError("INVALID_RESULT")), object |-> result]
    ELSE IF ~Truthy(Prop(result, "redirect"))
    THEN [promise |-> Rejected(OAuthError("INVALID_RESULT_REDIRECT")), object |-> result]
    ELSE LET redirectParams == ArrayAt(split(result.redirect.s, "?"), 1)
             withState == PropSet(result, "state", searchParam(<<"state">>, redirectParams))
             withCode == PropSet(withState, "code", searchParam(<<"code">>, redirectParams))
         IN  IF ~isOAuthCodeValid(withCode.code)
             THEN [promise |-> Rejected(OAuthError("INVALID_RESULT_CODE")), object |-> withCode]
             ELSE [promise |-> Fulfilled(withCode), object |-> withCode]

\* ------------------------------------------------------ Backbone.Model

\* new Backbone.Model(attributes): the model's own copy of the attributes
NewModel(attributes) == [k \in DOMAIN attributes |-> attributes[k]]

\* model.get(attr), model.has(attr), model.set(attr, value), model.unset(attr)
ModelGet(model, attr) == Prop(model, attr)
ModelHas(model, attr) == ModelGet(model, attr) \notin {Undefined, Null}
ModelSet(model, attr, value) == PropSet(model, attr, value)
ModelUnset(model, attr) == [k \in DOMAIN model \ {attr} |-> model[k]]

\* --------------------------------------------------- the broker classes

\* BaseAuthenticationBroker.prototype.defaultBehaviors
BaseDefaultBehaviors ==
    [afterChangePassword |-> NullBehavior,
     afterCompleteResetPassword |-> NullBehavior,
     afterCompleteSignUp |-> NullBehavior,
     afterDeleteAccount |-> NullBehavior,
     afterForceAuth |-> NullBehavior,
     afterResetPasswordConfirmationPoll |-> NullBehavior,
     afterSignIn |-> NullBehavior,
     afterSignInConfirmationPoll |-> NullBehavior,
     afterSignUp |-> NullBehavior,
     afterSignUpConfirmationPoll |-> NullBehavior,
     beforeSignIn |-> NullBehavior,
     beforeSignUpConfirmationPoll |-> NullBehavior]

\* BaseAuthenticationBroker.prototype.defaultCapabilities
BaseDefaultCapabilities ==
    [allowUidChange |-> Bool(FALSE),
     chooseWhatToSyncCheckbox |-> Bool(TRUE),
     convertExternalLinksToText |-> Bool(FALSE),
     emailVerificationMarketingSnippet |-> Bool(TRUE),
     handleSignedInNotification |-> Bool(TRUE),
     signup |-> Bool(TRUE),
     syncPreferencesNotification |-> Bool(FALSE)]

\* defaultBehaviors of the OAuth broker without the confirmation poll's override
OAuthDefaultBehaviorsWithoutPoll ==
    Extend(Extend(EmptyObject, BaseDefaultBehaviors),
           [afterForceAuth |-> HaltBehavior,
            afterSignIn |-> HaltBehavior])

\* OAuthAuthenticationBroker's defaultBehaviors:
\* _.extend({}, proto.defaultBehaviors, {...})
OAuthDefaultBehaviors ==
    Extend(Extend(EmptyObject, BaseDefaultBehaviors),
           [afterForceAuth |-> HaltBehavior,
            afterSignIn |-> HaltBehavior,
            afterSignInConfirmationPoll |-> HaltBehavior])

\* OAuthAuthenticationBroker's defaultCapabilities:
\* _.extend({}, proto.defaultCapabilities, {...})
OAuthDefaultCapabilities ==
    Extend(Extend(EmptyObject, BaseDefaultCapabilities),
           [handleSignedInNotification |-> Bool(FALSE)])

\* The broker classes: the base broker, the OAuth broker, and a subclass
\* of the OAuth broker that overrides sendOAuthResultToRelier and nothing
\* else.
BrokerTypes == {"base", "oauth", "oauth-subclass"}
OAuthTypes == {"oauth", "oauth-subclass"}

\* this.defaultBehaviors / this.defaultCapabilities, through the prototype chain
defaultBehaviors(type) ==
    IF type = "base" THEN BaseDefaultBehaviors ELSE OAuthDefaultBehaviors
defaultCapabilities(type) ==
    IF type = "base" THEN BaseDefaultCapabilities ELSE OAuthDefaultCapabilities

\* initialize(options): the registries of a new broker
initialize(type) ==
    [type |-> type,
     _behaviors |-> NewModel(defaultBehaviors(type)),
     _capabilities |-> NewModel(defaultCapabilities(type)),
     _isForceAuth |-> Undefined,
     attributes |-> EmptyObject]

\* a slot that holds no broker yet
NoBroker == [type |-> "none"]

\* ------------------------------------------------------------- inputs

\* the most brokers constructed in one run
MaxBrokers == 2
BrokerIds == 1..MaxBrokers

\* the accounts a hook is given: none, one without a sessionToken, one
\* whose sessionToken is the empty string, and one with a session token
Accounts ==
    {Null,
     [email |-> Str(<<"a@b.c">>)],
     [email |-> Str(<<"a@b.c">>), sessionToken |-> Str(<<>>)],
     [email |-> Str(<<"a@b.c">>), sessionToken |-> Str(<<"tokenA">>)]}

\* the attributes the relier can hold
Reliers ==
    {[clientId |-> Str(<<"client1">>), scope |-> Str(<<"profile">>),
      state |-> Str(<<"st1">>), accessType |-> ACCESS_TYPE_OFFLINE,
      context |-> Str(<<"web">>)],
     [clientId |-> Str(<<"client1">>), scope |-> Str(<<"profile">>),
      state |-> Str(<<"st2">>), accessType |-> Str(<<"online">>),
      context |-> Str(<<"web">>)],
     [clientId |-> Str(<<"client2">>), scope |-> Str(<<"openid">>),
      state |-> Str(<<"st1">>), context |-> Str(<<"iframe">>)]}

\* the accounts whose verification is followed: a verified one and an
\* unverified one, each with its uid
VerifiedAccount ==
    [uid |-> Str(<<"uid1">>), email |-> Str(<<"a@b.c">>), verified |-> Bool(TRUE)]
UnverifiedAccount ==
    [uid |-> Str(<<"uid2">>), email |-> Str(<<"b@b.c">>), verified |-> Bool(FALSE)]

\* the accounts the base broker's hooks are given: none, and the two above
HookAccounts == {Null, VerifiedAccount, UnverifiedAccount}

\* an account that has the email of the verified one under another uid
SameEmailAccount ==
    [uid |-> Str(<<"uid3">>), email |-> Str(<<"a@b.c">>), verified |-> Bool(FALSE)]

\* the accounts whose verification data is persisted and cleared
VerificationAccounts == HookAccounts \cup {SameEmailAccount}

\* the names behaviors are read under: every hook of the default table,
\* and a name that has no behavior
UnknownBehavior == "afterSignOut"
BehaviorNames == DOMAIN BaseDefaultBehaviors \cup {UnknownBehavior}

\* the names capabilities are read under: every capability of the default
\* table, and a name that was never set
UnknownCapability == "keysRotation"
CapabilityNames == DOMAIN BaseDefaultCapabilities \cup {UnknownCapability}

\* what AssertionLibrary.generate resolves with or fails with
Assertions == {Str(<<"assertionA">>), Str(<<"assertionB">>)}
AssertionFailure == AuthError("UNVERIFIED_ACCOUNT")

\* the redirect URLs of the results, as token sequences
RP == "https://rp/cb"
RedirectBoth == Str(<<RP, "?", "state", "=", "st1", "&", "code", "=", "c0de1">>)
RedirectCodeFirst == Str(<<RP, "?", "code", "=", "c0de2", "&", "state", "=", "st2">>)
RedirectNoState == Str(<<RP, "?", "code", "=", "c0de1">>)
RedirectNoCode == Str(<<RP, "?", "state", "=", "st1">>)
RedirectBadCode == Str(<<RP, "?", "state", "=", "st1", "&", "code", "=", "nothex">>)
RedirectEmptyCode == Str(<<RP, "?", "state", "=", "st1", "&", "code", "=">>)
RedirectNoQuery == Str(<<RP>>)
RedirectEmptyQuery == Str(<<RP, "?">>)

\* what OAuthClient.getCode resolves with: nothing, objects without a
\* usable redirect, and objects with each of the redirects above
Results ==
    {Undefined,
     EmptyObject,
     [redirect |-> Str(<<>>)],
     [redirect |-> RedirectBoth],
     [redirect |-> RedirectCodeFirst, expires |-> Str(<<"900">>)],
     [redirect |-> RedirectNoState],
     [redirect |-> RedirectNoCode],
     [redirect |-> RedirectBadCode, expires |-> Str(<<"900">>)],
     [redirect |-> RedirectEmptyCode],
     [redirect |-> RedirectNoQuery],
     [redirect |-> RedirectEmptyQuery]}
GetCodeFailure == OAuthError("SERVICE_UNAVAILABLE")

\* the additionalResultData of a direct finishOAuthFlow call: the
\* default {} and an action
ExtraData == {EmptyObject, [action |-> OAUTH_ACTION_SIGNUP]}

\* what an overriding sendOAuthResultToRelier resolves with or fails with
SendValues == {Undefined, Bool(TRUE)}
SendFailure == Error("relier did not respond")

\* the behaviors a caller registers
Behaviors == {NullBehavior, HaltBehavior, NavigateBehavior}

\* ------------------------------------------------------------- state

VARIABLES
    brokers,       \* broker id -> the broker constructed there, or NoBroker
    relier,        \* the relier's attributes
    session,       \* the session's entries
    storage,       \* the verification records the browser's storage holds
    window,        \* the window's location: its pathname and its search string
    view,          \* where the view has navigated to, or NotCalled
    tabs,          \* tab id -> what another tab of the browser is doing
    call,          \* the broker method the caller is waiting for, or NoCall
    pc,            \* where the call's promise chain stands
    log,           \* what the call has done so far, in order
    generateArg,   \* the argument of AssertionLibrary.generate
    assertion,     \* what generate resolved with
    oauthParams,   \* the argument of OAuthClient.getCode
    rawResult,     \* what getCode resolved with, as it was then
    resultObject,  \* the same object, as the broker has left it
    oauthResult,   \* the promise getOAuthResult returned
    sent,          \* the argument of sendOAuthResultToRelier
    delivery,      \* the promise sendOAuthResultToRelier returned
    outcome        \* the promise the called method returned

vars == <<brokers, relier, session, storage, window, view, tabs, call, pc, log, generateArg, assertion,
          oauthParams, rawResult, resultObject, oauthResult, sent, delivery, outcome>>

pageVars == <<window, view, tabs>>

flowVars == <<call, pc, log, generateArg, assertion, oauthParams, rawResult,
              resultObject, oauthResult, sent, delivery, outcome>>

NoCall == [entry |-> "none"]
NotCalled == [t |-> "not called"]
NoPromise == [state |-> "none"]

\* the session entry an earlier persistVerificationData may have left
StoredOAuth == [client_id |-> Str(<<"client1">>), state |-> Str(<<"st1">>)]

\* the most tabs of the browser that verify at the same time
MaxTabs == 2
TabIds == 1..MaxTabs

\* a tab that is doing nothing
IdleTab ==
    [entry |-> "none", account |-> Null, found |-> Undefined, pc |-> "idle",
     outcome |-> NoPromise]

\* the page a broker is constructed on, when the page plays no part
DefaultWindow == [pathname |-> Str(<<"/", "signin">>), search |-> Str(<<>>)]

\* a view as created: its model and its afterSignInBrokerMethod property;
\* page is what it has navigated to, signInAccount what user.signInAccount
\* was given, signIn the promise signIn returned
View(model, afterSignInBrokerMethod) ==
    [model |-> model, afterSignInBrokerMethod |-> afterSignInBrokerMethod,
     page |-> NotCalled, signInAccount |-> NotCalled, signIn |-> NoPromise]

\* a view with an empty model
NoView == View(EmptyObject, Undefined)

\* the page as loaded: no navigation yet, no other tab at work
PageLoaded ==
    /\ window = DefaultWindow
    /\ view = NoView
    /\ tabs = [t \in TabIds |-> IdleTab]

\* no call in flight
Idle ==
    /\ call = NoCall
    /\ pc = "idle"
    /\ log = <<>>
    /\ generateArg = NotCalled
    /\ assertion = NotCalled
    /\ oauthParams = NotCalled
    /\ rawResult = NotCalled
    /\ resultObject = NotCalled
    /\ oauthResult = NoPromise
    /\ sent = NotCalled
    /\ delivery = NoPromise
    /\ outcome = NoPromise

\* An OAuth broker (or a subclass that delivers the result) has been
\* constructed; the session may hold OAuth data from an earlier
\* verification.
Init ==
    /\ \E type \in OAuthTypes :
          brokers = [b \in BrokerIds |-> IF b = 1 THEN initialize(type) ELSE NoBroker]
    /\ relier \in Reliers
    /\ session \in {EmptyObject, [oauth |-> StoredOAuth]}
    /\ storage = EmptyObject
    /\ PageLoaded
    /\ Idle

\* --------------------------------------------------- the OAuth exchange

\* session.clear(key)
SessionClear(entries, key) == [k \in DOMAIN entries \ {key} |-> entries[k]]

\* getOAuthResult that checks the account but not its sessionToken
getOAuthResultWithoutTokenCheck(account, events) ==
    /\ pc = "idle"
    /\ IF ~Truthy(account)
       THEN /\ oauthResult' = Rejected(AuthError("INVALID_TOKEN"))
            /\ outcome' = Rejected(AuthError("INVALID_TOKEN"))
            /\ generateArg' = NotCalled
            /\ log' = events
            /\ pc' = "settled"
       ELSE /\ oauthResult' = Pending
            /\ outcome' = Pending
            /\ generateArg' = ModelGet(account, "sessionToken")
            /\ log' = Append(events, "generate")
            /\ pc' = "generate"
    /\ UNCHANGED <<pageVars, brokers, relier, storage, assertion, oauthParams, rawResult, resultObject,
                   sent, delivery>>

\* getOAuthResult(account), up to the first promise it waits for: the
\* INVALID_TOKEN rejection, or the call of generate.  `events` is what the
\* caller has done before.
getOAuthResult(account, events) ==
    /\ pc = "idle"
    /\ IF ~Truthy(account) \/ ~Truthy(ModelGet(account, "sessionToken"))
       THEN /\ oauthResult' = Rejected(AuthError("INVALID_TOKEN"))
            /\ outcome' = Rejected(AuthError("INVALID_TOKEN"))
            /\ generateArg' = NotCalled
            /\ log' = events
            /\ pc' = "settled"
       ELSE /\ oauthResult' = Pending
            /\ outcome' = Pending
            /\ generateArg' = ModelGet(account, "sessionToken")
            /\ log' = Append(events, "generate")
            /\ pc' = "generate"
    /\ UNCHANGED <<pageVars, brokers, relier, storage, assertion, oauthParams, rawResult, resultObject,
                   sent, delivery>>

\* a caller invokes getOAuthResult itself
callGetOAuthResult(self, account) ==
    /\ brokers[self].type \in OAuthTypes
    /\ call' = [entry |-> "getOAuthResult", self |-> self, account |-> account,
                extra |-> EmptyObject]
    /\ getOAuthResult(account, <<>>)
    /\ UNCHANGED session

\* finishOAuthFlow clearing the session once the account has passed the
\* token check
finishOAuthFlowClearingAfterTokenCheck(self, entry, account, additionalResultData) ==
    /\ brokers[self].type \in OAuthTypes
    /\ call' = [entry |-> entry, self |-> self, account |-> account,
                extra |-> additionalResultData]
    /\ session' = IF ~Truthy(account) \/ ~Truthy(ModelGet(account, "sessionToken"))
                  THEN session
                  ELSE SessionClear(session, "oauth")
    /\ getOAuthResult(account, <<"session.clear">>)

\* finishOAuthFlow(account, additionalResultData = {}), up to the first
\* promise it waits for
finishOAuthFlow(self, entry, account, additionalResultData) ==
    /\ brokers[self].type \in OAuthTypes
    /\ call' = [entry |-> entry, self |-> self, account |-> account,
                extra |-> additionalResultData]
    /\ session' = SessionClear(session, "oauth")
    /\ getOAuthResult(account, <<"session.clear">>)

callFinishOAuthFlow(self, account, additionalResultData) ==
    finishOAuthFlow(self, "finishOAuthFlow", account, additionalResultData)

finishOAuthSignInFlow(self, entry, account) ==
    finishOAuthFlow(self, entry, account, [action |-> OAUTH_ACTION_SIGNIN])

finishOAuthSignUpFlow(self, entry, account) ==
    finishOAuthFlow(self, entry, account, [action |-> OAUTH_ACTION_SIGNUP])

\* the OAuth broker's hooks, up to the first promise they wait for
afterForceAuth(self, account) == finishOAuthSignInFlow(self, "afterForceAuth", account)
afterSignIn(self, account) == finishOAuthSignInFlow(self, "afterSignIn", account)
afterSignInConfirmationPoll(self, account) ==
    finishOAuthSignInFlow(self, "afterSignInConfirmationPoll", account)

\* afterSignUpConfirmationPoll finishing the flow as a sign in
afterSignUpConfirmationPollAsSignIn(self, account) ==
    finishOAuthSignInFlow(self, "afterSignUpConfirmationPoll", account)

afterSignUpConfirmationPoll(self, account) ==
    finishOAuthSignUpFlow(self, "afterSignUpConfirmationPoll", account)
afterResetPasswordConfirmationPoll(self, account) ==
    finishOAuthSignInFlow(self, "afterResetPasswordConfirmationPoll", account)

\* the hooks that go on to the base hook of the same name once the OAuth
\* flow has finished
BehaviorHooks == {"afterForceAuth", "afterSignIn", "afterSignInConfirmationPoll"}

\* generate's handler with access_type always among the parameters
generateFulfilledAccessTypeAlways(value) ==
    /\ pc = "generate"
    /\ assertion' = value
    /\ oauthParams' = [assertion |-> value,
                       client_id |-> ModelGet(relier, "clientId"),
                       scope |-> ModelGet(relier, "scope"),
                       state |-> ModelGet(relier, "state"),
                       access_type |-> ModelGet(relier, "accessType")]
    /\ log' = log \o <<"generate.fulfilled", "getCode">>
    /\ pc' = "getCode"
    /\ UNCHANGED <<pageVars, brokers, relier, session, storage, call, generateArg, rawResult,
                   resultObject, oauthResult, sent, delivery, outcome>>

\* generate's handler passing the session token on in place of the assertion
generateFulfilledTokenAsAssertion(value) ==
    /\ pc = "generate"
    /\ assertion' = value
    /\ LET params == [assertion |-> generateArg,
                      client_id |-> ModelGet(relier, "clientId"),
                      scope |-> ModelGet(relier, "scope"),
                      state |-> ModelGet(relier, "state")]
       IN  oauthParams' =
               IF ModelGet(relier, "accessType") = ACCESS_TYPE_OFFLINE
               THEN PropSet(params, "access_type", ACCESS_TYPE_OFFLINE)
               ELSE params
    /\ log' = log \o <<"generate.fulfilled", "getCode">>
    /\ pc' = "getCode"
    /\ UNCHANGED <<pageVars, brokers, relier, session, storage, call, generateArg, rawResult,
                   resultObject, oauthResult, sent, delivery, outcome>>

\* generate resolves: the handler builds the parameters and calls getCode
generateFulfilled(value) ==
    /\ pc = "generate"
    /\ assertion' = value
    /\ LET params == [assertion |-> value,
                      client_id |-> ModelGet(relier, "clientId"),
                      scope |-> ModelGet(relier, "scope"),
                      state |-> ModelGet(relier, "state")]
       IN  oauthParams' =
               IF ModelGet(relier, "accessType") = ACCESS_TYPE_OFFLINE
               THEN PropSet(params, "access_type", ACCESS_TYPE_OFFLINE)
               ELSE params
    /\ log' = log \o <<"generate.fulfilled", "getCode">>
    /\ pc' = "getCode"
    /\ UNCHANGED <<pageVars, brokers, relier, session, storage, call, generateArg, rawResult,
                   resultObject, oauthResult, sent, delivery, outcome>>

\* generate failing once is called again before the failure is passed on
generateRejectedRetrying(error) ==
    /\ pc = "generate"
    /\ IF \E i \in 1..Len(log) : log[i] = "generate.rejected"
       THEN /\ oauthResult' = Rejected(error)
            /\ outcome' = Rejected(error)
            /\ log' = Append(log, "generate.rejected")
            /\ pc' = "settled"
       ELSE /\ UNCHANGED <<oauthResult, outcome, pc>>
            /\ log' = log \o <<"generate.rejected", "generate">>
    /\ UNCHANGED <<pageVars, brokers, relier, session, storage, call, generateArg, assertion,
                   oauthParams, rawResult, resultObject, sent, delivery>>

\* generate fails: no handler runs, every promise down the chain fails
generateRejected(error) ==
    /\ pc = "generate"
    /\ oauthResult' = Rejected(error)
    /\ outcome' = Rejected(error)
    /\ log' = Append(log, "generate.rejected")
    /\ pc' = "settled"
    /\ UNCHANGED <<pageVars, brokers, relier, session, storage, call, generateArg, assertion,
                   oauthParams, rawResult, resultObject, sent, delivery>>

\* getCode resolves: .then(_formatOAuthResult)
getCodeFulfilled(result) ==
    /\ pc = "getCode"
    /\ rawResult' = result
    /\ LET formatted == _formatOAuthResult(result)
       IN  /\ resultObject' = formatted.object
           /\ oauthResult' = formatted.promise
           /\ IF formatted.promise.state = "rejected" \/ call.entry = "getOAuthResult"
              THEN outcome' = formatted.promise /\ pc' = "settled"
              ELSE outcome' = outcome /\ pc' = "then.extend"
    /\ log' = log \o <<"getCode.fulfilled", "_formatOAuthResult">>
    /\ UNCHANGED <<pageVars, brokers, relier, session, storage, call, generateArg, assertion,
                   oauthParams, sent, delivery>>

\* getCode fails
getCodeRejected(error) ==
    /\ pc = "getCode"
    /\ oauthResult' = Rejected(error)
    /\ outcome' = Rejected(error)
    /\ log' = Append(log, "getCode.rejected")
    /\ pc' = "settled"
    /\ UNCHANGED <<pageVars, brokers, relier, session, storage, call, generateArg, assertion,
                   oauthParams, rawResult, resultObject, sent, delivery>>

\* finishOAuthFlow's handler sending the result before the extra data is merged
sendBeforeExtend ==
    /\ pc = "then.extend"
    /\ sent' = resultObject
    /\ resultObject' = Extend(resultObject, call.extra)
    /\ delivery' = Pending
    /\ log' = log \o <<"sendOAuthResultToRelier", "extend">>
    /\ pc' = "send"
    /\ UNCHANGED <<pageVars, brokers, relier, session, storage, call, generateArg, assertion,
                   oauthParams, rawResult, oauthResult, outcome>>

\* finishOAuthFlow's handler: result = _.extend(result, additionalResultData),
\* then sendOAuthResultToRelier(result)
extendAndSend ==
    /\ pc = "then.extend"
    /\ resultObject' = Extend(resultObject, call.extra)
    /\ sent' = resultObject'
    /\ delivery' = Pending
    /\ log' = log \o <<"extend", "sendOAuthResultToRelier">>
    /\ pc' = "send"
    /\ UNCHANGED <<pageVars, brokers, relier, session, storage, call, generateArg, assertion,
                   oauthParams, rawResult, oauthResult, outcome>>

\* sendOAuthResultToRelier resolving in the OAuth broker itself
sendOAuthResultToRelierResolving(type) ==
    {Fulfilled(v) : v \in SendValues} \cup {Rejected(SendFailure)}

\* the promise of sendOAuthResultToRelier: the OAuth broker's own always
\* fails, a subclass's may resolve or fail
sendOAuthResultToRelier(type) ==
    IF type = "oauth"
    THEN {Rejected(Error("subclasses must override sendOAuthResultToRelier"))}
    ELSE {Fulfilled(v) : v \in SendValues} \cup {Rejected(SendFailure)}

\* a failing sendOAuthResultToRelier leaving a hook that has a handler
\* without an outcome
sendSettledDroppingFailure(promise) ==
    /\ pc = "send"
    /\ promise \in sendOAuthResultToRelier(brokers[call.self].type)
    /\ IF call.entry \in BehaviorHooks
       THEN /\ outcome' = outcome
            /\ pc' = IF promise.state = "fulfilled" THEN "then.behavior" ELSE "dropped"
       ELSE outcome' = promise /\ pc' = "settled"
    /\ delivery' = promise
    /\ log' = Append(log, "sendOAuthResultToRelier." \o promise.state)
    /\ UNCHANGED <<pageVars, brokers, relier, session, storage, call, generateArg, assertion,
                   oauthParams, rawResult, resultObject, oauthResult, sent>>

\* sendOAuthResultToRelier's promise settles: finishOAuthFlow's promise
\* settles the same way, and a hook with a handler goes on to it
sendSettled(promise) ==
    /\ pc = "send"
    /\ promise \in sendOAuthResultToRelier(brokers[call.self].type)
    /\ IF promise.state = "fulfilled" /\ call.entry \in BehaviorHooks
       THEN outcome' = outcome /\ pc' = "then.behavior"
       ELSE outcome' = promise /\ pc' = "settled"
    /\ delivery' = promise
    /\ log' = Append(log, "sendOAuthResultToRelier." \o promise.state)
    /\ UNCHANGED <<pageVars, brokers, relier, session, storage, call, generateArg, assertion,
                   oauthParams, rawResult, resultObject, oauthResult, sent>>

\* getBehavior resolving to the null behavior for a name with no behavior
getBehaviorOrNull(broker, behaviorName) ==
    IF ~ModelHas(broker._behaviors, behaviorName)
    THEN Fulfilled(NullBehavior)
    ELSE Fulfilled(ModelGet(broker._behaviors, behaviorName))

\* getBehavior(behaviorName): throws for a name with no behavior
getBehavior(broker, behaviorName) ==
    IF ~ModelHas(broker._behaviors, behaviorName)
    THEN Rejected(Error("behavior not found for: " \o behaviorName))
    ELSE Fulfilled(ModelGet(broker._behaviors, behaviorName))

\* the hook's handler reading the behavior of afterSignIn for every hook
baseHookOfAfterSignIn ==
    /\ pc = "then.behavior"
    /\ outcome' = getBehavior(brokers[call.self], "afterSignIn")
    /\ log' = Append(log, "getBehavior")
    /\ pc' = "settled"
    /\ UNCHANGED <<pageVars, brokers, relier, session, storage, call, generateArg, assertion,
                   oauthParams, rawResult, resultObject, oauthResult, sent, delivery>>

\* the hook's handler: proto.<hook>.call(this, account), which is
\* p(this.getBehavior('<hook>'))
baseHook ==
    /\ pc = "then.behavior"
    /\ outcome' = getBehavior(brokers[call.self], call.entry)
    /\ log' = Append(log, "getBehavior")
    /\ pc' = "settled"
    /\ UNCHANGED <<pageVars, brokers, relier, session, storage, call, generateArg, assertion,
                   oauthParams, rawResult, resultObject, oauthResult, sent, delivery>>

\* the caller has the outcome; the next call can start
return ==
    /\ pc = "settled"
    /\ call' = NoCall
    /\ pc' = "idle"
    /\ log' = <<>>
    /\ generateArg' = NotCalled
    /\ assertion' = NotCalled
    /\ oauthParams' = NotCalled
    /\ rawResult' = NotCalled
    /\ resultObject' = NotCalled
    /\ oauthResult' = NoPromise
    /\ sent' = NotCalled
    /\ delivery' = NoPromise
    /\ outcome' = NoPromise
    /\ UNCHANGED <<pageVars, brokers, relier, session, storage>>

\* setBehavior registering the behavior under every hook
setBehaviorOfEveryHook(self, behaviorName, value) ==
    /\ brokers[self] # NoBroker
    /\ brokers' = [brokers EXCEPT
                     ![self]._behaviors = [n \in DOMAIN @ \cup {behaviorName} |-> value]]
    /\ UNCHANGED <<pageVars, relier, session, storage, flowVars>>

\* setBehavior(behaviorName, value)
setBehavior(self, behaviorName, value) ==
    /\ brokers[self] # NoBroker
    /\ brokers' = [brokers EXCEPT ![self]._behaviors = ModelSet(@, behaviorName, value)]
    /\ UNCHANGED <<pageVars, relier, session, storage, flowVars>>

\* the hooks the OAuth broker overrides
OAuthHooks ==
    BehaviorHooks \cup {"afterSignUpConfirmationPoll", "afterResetPasswordConfirmationPoll"}

\* A caller registers a behavior for one of the overridden hooks, or puts
\* the hook's default back, while the other overridden hooks hold their
\* defaults: one hook at a time is given another behavior.
replaceBehavior(self, behaviorName, value) ==
    /\ \A n \in OAuthHooks \ {behaviorName} :
          ModelGet(brokers[self]._behaviors, n) = defaultBehaviors(brokers[self].type)[n]
    /\ setBehavior(self, behaviorName, value)

\* the relier's attributes change (relier.set)
relierSet(attributes) ==
    /\ relier' = attributes
    /\ UNCHANGED <<pageVars, brokers, session, storage, flowVars>>

Next ==
    \/ \E a \in Accounts : callGetOAuthResult(1, a)
    \/ \E a \in Accounts, x \in ExtraData : callFinishOAuthFlow(1, a, x)
    \/ \E a \in Accounts : afterForceAuth(1, a)
    \/ \E a \in Accounts : afterSignIn(1, a)
    \/ \E a \in Accounts : afterSignInConfirmationPoll(1, a)
    \/ \E a \in Accounts : afterSignUpConfirmationPoll(1, a)
    \/ \E a \in Accounts : afterResetPasswordConfirmationPoll(1, a)
    \/ \E value \in Assertions : generateFulfilled(value)
    \/ generateRejected(AssertionFailure)
    \/ \E result \in Results : getCodeFulfilled(result)
    \/ getCodeRejected(GetCodeFailure)
    \/ extendAndSend
    \/ \E promise \in sendOAuthResultToRelier(brokers[1].type) : sendSettled(promise)
    \/ baseHook
    \/ return
    \/ \E n \in OAuthHooks :
          \E v \in {NavigateBehavior, defaultBehaviors(brokers[1].type)[n]} :
              replaceBehavior(1, n, v)
    \/ \E r \in Reliers : relierSet(r)

Spec == Init /\ [][Next]_vars

\* -------------------------------------------------------- construction

\* new Broker(options), into a free slot
construct(self, type) ==
    /\ brokers[self] = NoBroker
    /\ brokers' = [brokers EXCEPT ![self] = initialize(type)]
    /\ UNCHANGED <<pageVars, relier, session, storage, flowVars>>

\* setCapability on a registry that the brokers of one class share
setCapabilityOfClass(self, capabilityName, capabilityValue) ==
    /\ brokers[self] # NoBroker
    /\ brokers' = [b \in BrokerIds |->
                     IF brokers[b].type = brokers[self].type
                     THEN [brokers[b] EXCEPT
                             !._capabilities = ModelSet(@, capabilityName, capabilityValue)]
                     ELSE brokers[b]]
    /\ UNCHANGED <<pageVars, relier, session, storage, flowVars>>

\* setCapability(capabilityName, capabilityValue)
setCapability(self, capabilityName, capabilityValue) ==
    /\ brokers[self] # NoBroker
    /\ brokers' = [brokers EXCEPT
                     ![self]._capabilities = ModelSet(@, capabilityName, capabilityValue)]
    /\ UNCHANGED <<pageVars, relier, session, storage, flowVars>>

\* unsetCapability leaving the capability set to false
unsetCapabilityToFalse(self, capabilityName) ==
    /\ brokers[self] # NoBroker
    /\ brokers' = [brokers EXCEPT
                     ![self]._capabilities = ModelSet(@, capabilityName, Bool(FALSE))]
    /\ UNCHANGED <<pageVars, relier, session, storage, flowVars>>

\* unsetCapability(capabilityName)
unsetCapability(self, capabilityName) ==
    /\ brokers[self] # NoBroker
    /\ brokers' = [brokers EXCEPT ![self]._capabilities = ModelUnset(@, capabilityName)]
    /\ UNCHANGED <<pageVars, relier, session, storage, flowVars>>

\* No broker has been constructed yet.  The relier plays no part in the
\* registries.
InitConstruct ==
    /\ brokers = [b \in BrokerIds |-> NoBroker]
    /\ relier \in {r \in Reliers : "accessType" \notin DOMAIN r}
    /\ session = EmptyObject
    /\ storage = EmptyObject
    /\ PageLoaded
    /\ Idle

\* Brokers of every class are constructed in any order, and their
\* registries are changed between the constructions.
NextConstruct ==
    \/ \E b \in BrokerIds, type \in BrokerTypes : construct(b, type)
    \/ \E b \in BrokerIds, v \in Behaviors : setBehavior(b, "afterSignIn", v)
    \/ \E b \in BrokerIds, v \in {Bool(TRUE), Bool(FALSE)} :
          setCapability(b, "handleSignedInNotification", v)
    \/ \E b \in BrokerIds : unsetCapability(b, "handleSignedInNotification")

SpecConstruct == InitConstruct /\ [][NextConstruct]_vars

\* ------------------------------------------- verification in one browser

\* a verification model that is told the account's email in place of its uid
createSameBrowserVerificationModelByEmail(account, namespace) ==
    [attributes |-> EmptyObject,
     email |-> ModelGet(account, "email"),
     namespace |-> namespace,
     uid |-> ModelGet(account, "email")]

\* new SameBrowserVerificationModel({}, { email, namespace, uid })
createSameBrowserVerificationModel(account, namespace) ==
    [attributes |-> EmptyObject,
     email |-> ModelGet(account, "email"),
     namespace |-> namespace,
     uid |-> ModelGet(account, "uid")]

\* the key a verification model's record is stored under
VerificationKey(verificationInfo) ==
    [namespace |-> verificationInfo.namespace, uid |-> verificationInfo.uid]

\* verificationInfo.set(attributes)
VerificationSet(verificationInfo, attributes) ==
    [verificationInfo EXCEPT !.attributes = Extend(@, attributes)]

\* verificationInfo.persist(): the storage afterwards
VerificationPersist(records, verificationInfo) ==
    PropSet(records, VerificationKey(verificationInfo),
            [email |-> verificationInfo.email,
             context |-> Prop(verificationInfo.attributes, "context")])

\* verificationInfo.clear(): the storage afterwards
VerificationClear(records, verificationInfo) ==
    [k \in DOMAIN records \ {VerificationKey(verificationInfo)} |-> records[k]]

\* clearSameBrowserVerificationModel(account, namespace)
clearSameBrowserVerificationModel(records, account, namespace) ==
    VerificationClear(records, createSameBrowserVerificationModel(account, namespace))

\* account.get(...) on an account that is null
NullAccountError == [namespace |-> "TypeError", error |-> "account is null"]

\* ------------------------------------------------------ the base broker

\* A call of a method of the base broker, `name` being the name it reads:
\* a returned value is the promise Fulfilled(value), a thrown error is
\* Rejected(error).
BaseCall(entry, self, account, name) ==
    [entry |-> entry, self |-> self, account |-> account, extra |-> EmptyObject,
     name |-> name]

\* a method that returns at once: nothing is waited for
Returns(promise, events) ==
    /\ pc = "idle"
    /\ outcome' = promise
    /\ log' = events
    /\ pc' = "settled"
    /\ UNCHANGED <<pageVars, brokers, relier, session, storage, generateArg, assertion,
                   oauthParams, rawResult, resultObject, oauthResult, sent, delivery>>

\* a caller invokes getBehavior(behaviorName)
callGetBehavior(self, behaviorName) ==
    /\ brokers[self] # NoBroker
    /\ call' = BaseCall("getBehavior", self, Null, behaviorName)
    /\ Returns(getBehavior(brokers[self], behaviorName), <<"getBehavior">>)

\* getCapability(capabilityName)
getCapability(broker, capabilityName) == ModelGet(broker._capabilities, capabilityName)

\* hasCapability with no look at the capability's value
hasCapabilityWhenSet(broker, capabilityName) ==
    ModelHas(broker._capabilities, capabilityName)

\* hasCapability(capabilityName)
hasCapability(broker, capabilityName) ==
    /\ ModelHas(broker._capabilities, capabilityName)
    /\ Truthy(ModelGet(broker._capabilities, capabilityName))

\* a caller invokes getCapability(capabilityName), hasCapability(capabilityName)
callGetCapability(self, capabilityName) ==
    /\ brokers[self] # NoBroker
    /\ call' = BaseCall("getCapability", self, Null, capabilityName)
    /\ Returns(Fulfilled(getCapability(brokers[self], capabilityName)), <<>>)

callHasCapability(self, capabilityName) ==
    /\ brokers[self] # NoBroker
    /\ call' = BaseCall("hasCapability", self, Null, capabilityName)
    /\ Returns(Fulfilled(Bool(hasCapability(brokers[self], capabilityName))), <<>>)

\* the hooks of the base broker that are p(this.getBehavior('<hook>'))
BaseHooks ==
    {"beforeSignIn", "afterSignIn", "afterSignInConfirmationPoll", "afterForceAuth",
     "afterSignUp", "beforeSignUpConfirmationPoll", "afterSignUpConfirmationPoll",
     "afterResetPasswordConfirmationPoll", "afterChangePassword", "afterDeleteAccount"}

\* every hook resolving to the behavior of afterSignIn
protoHookOfAfterSignIn(self, hook, account) ==
    /\ brokers[self].type = "base" \/ (brokers[self].type \in OAuthTypes /\ hook \notin OAuthHooks)
    /\ call' = BaseCall(hook, self, account, hook)
    /\ Returns(getBehavior(brokers[self], "afterSignIn"), <<"getBehavior">>)

\* proto.<hook>(account) of the base broker, which a broker that does not
\* override the hook runs as its own
protoHook(self, hook, account) ==
    /\ brokers[self].type = "base" \/ (brokers[self].type \in OAuthTypes /\ hook \notin OAuthHooks)
    /\ call' = BaseCall(hook, self, account, hook)
    /\ Returns(getBehavior(brokers[self], hook), <<"getBehavior">>)

\* a method that starts with p().then(...): its handler runs a tick later
Defers(step) ==
    /\ pc = "idle"
    /\ outcome' = Pending
    /\ log' = <<>>
    /\ pc' = step
    /\ UNCHANGED <<pageVars, brokers, relier, session, storage, generateArg, assertion,
                   oauthParams, rawResult, resultObject, oauthResult, sent, delivery>>

\* A call of a method that waits for the storage. `before` is what the
\* relier's context and the account's record were when the call was made.
StorageCall(entry, self, account) ==
    [entry |-> entry, self |-> self, account |-> account, extra |-> EmptyObject,
     name |-> "context",
     before |-> [context |-> ModelGet(relier, "context"),
                 record |-> Prop(storage, VerificationKey(
                                createSameBrowserVerificationModel(account, "context")))]]

\* persistVerificationData(account), up to its deferred handler
persistVerificationData(self, account) ==
    /\ brokers[self].type = "base"
    /\ call' = StorageCall("persistVerificationData", self, account)
    /\ Defers("persist")

\* the handler of persistVerificationData storing the context the relier
\* had when the method was called
persistHandlerWithContextOfCall ==
    /\ pc = "persist"
    /\ IF call.account = Null
       THEN /\ outcome' = Rejected(NullAccountError)
            /\ UNCHANGED <<pageVars, storage, log>>
       ELSE LET verificationInfo ==
                    VerificationSet(
                        createSameBrowserVerificationModel(call.account, "context"),
                        [context |-> call.before.context])
            IN  /\ storage' = VerificationPersist(storage, verificationInfo)
                /\ log' = Append(log, "persist")
                /\ outcome' = Fulfilled(Undefined)
    /\ pc' = "settled"
    /\ UNCHANGED <<pageVars, brokers, relier, session, call, generateArg, assertion,
                   oauthParams, rawResult, resultObject, oauthResult, sent, delivery>>

\* the handler of persistVerificationData: the verification model of the
\* account gets the relier's context and is persisted
persistHandler ==
    /\ pc = "persist"
    /\ IF call.account = Null
       THEN /\ outcome' = Rejected(NullAccountError)
            /\ UNCHANGED <<pageVars, storage, log>>
       ELSE LET verificationInfo ==
                    VerificationSet(
                        createSameBrowserVerificationModel(call.account, "context"),
                        [context |-> ModelGet(relier, "context")])
            IN  /\ storage' = VerificationPersist(storage, verificationInfo)
                /\ log' = Append(log, "persist")
                /\ outcome' = Fulfilled(Undefined)
    /\ pc' = "settled"
    /\ UNCHANGED <<pageVars, brokers, relier, session, call, generateArg, assertion,
                   oauthParams, rawResult, resultObject, oauthResult, sent, delivery>>

\* unpersistVerificationData(account), up to its deferred handler
unpersistVerificationData(self, entry, account) ==
    /\ brokers[self].type = "base"
    /\ call' = StorageCall(entry, self, account)
    /\ Defers("unpersist")

callUnpersistVerificationData(self, account) ==
    unpersistVerificationData(self, "unpersistVerificationData", account)

\* afterCompleteSignUp(account), afterCompleteResetPassword(account), up
\* to the deferred handler of unpersistVerificationData
afterCompleteSignUp(self, account) ==
    unpersistVerificationData(self, "afterCompleteSignUp", account)
afterCompleteResetPassword(self, account) ==
    unpersistVerificationData(self, "afterCompleteResetPassword", account)

\* the hooks that go on to read their behavior once the record is cleared
CompleteHooks == {"afterCompleteSignUp", "afterCompleteResetPassword"}

\* the handler of unpersistVerificationData failing when there is no record
unpersistHandlerFailingWhenAbsent ==
    /\ pc = "unpersist"
    /\ IF \/ call.account = Null
          \/ VerificationKey(createSameBrowserVerificationModel(call.account, "context"))
                 \notin DOMAIN storage
       THEN /\ outcome' = Rejected(NullAccountError)
            /\ pc' = "settled"
            /\ UNCHANGED <<storage, log>>
       ELSE /\ storage' = clearSameBrowserVerificationModel(storage, call.account, "context")
            /\ log' = Append(log, "clear")
            /\ IF call.entry \in CompleteHooks
               THEN outcome' = outcome /\ pc' = "then.behavior"
               ELSE outcome' = Fulfilled(Undefined) /\ pc' = "settled"
    /\ UNCHANGED <<pageVars, brokers, relier, session, call, generateArg, assertion,
                   oauthParams, rawResult, resultObject, oauthResult, sent, delivery>>

\* the handler of unpersistVerificationData leaving the record where it is
unpersistHandlerWithoutClear ==
    /\ pc = "unpersist"
    /\ IF call.account = Null
       THEN /\ outcome' = Rejected(NullAccountError)
            /\ pc' = "settled"
            /\ UNCHANGED <<pageVars, storage, log>>
       ELSE /\ storage' = storage
            /\ log' = Append(log, "clear")
            /\ IF call.entry \in CompleteHooks
               THEN outcome' = outcome /\ pc' = "then.behavior"
               ELSE outcome' = Fulfilled(Undefined) /\ pc' = "settled"
    /\ UNCHANGED <<pageVars, brokers, relier, session, call, generateArg, assertion,
                   oauthParams, rawResult, resultObject, oauthResult, sent, delivery>>

\* the handler of unpersistVerificationData: the account's record is
\* cleared; a hook that waits for it goes on to its own handler
unpersistHandler ==
    /\ pc = "unpersist"
    /\ IF call.account = Null
       THEN /\ outcome' = Rejected(NullAccountError)
            /\ pc' = "settled"
            /\ UNCHANGED <<pageVars, storage, log>>
       ELSE /\ storage' = clearSameBrowserVerificationModel(storage, call.account, "context")
            /\ log' = Append(log, "clear")
            /\ IF call.entry \in CompleteHooks
               THEN outcome' = outcome /\ pc' = "then.behavior"
               ELSE outcome' = Fulfilled(Undefined) /\ pc' = "settled"
    /\ UNCHANGED <<pageVars, brokers, relier, session, call, generateArg, assertion,
                   oauthParams, rawResult, resultObject, oauthResult, sent, delivery>>

\* the hooks whose behavior a caller of the base broker replaces
ReplacedHooks == {"afterSignIn", "afterCompleteSignUp"}

\* the capability a caller of the base broker sets and unsets
ChangedCapability == "handleSignedInNotification"

\* the record an earlier sign up in this browser may have left
StoredVerification ==
    VerificationPersist(EmptyObject,
        VerificationSet(createSameBrowserVerificationModel(VerifiedAccount, "context"),
                        [context |-> Str(<<"iframe">>)]))

\* A base broker has been constructed; the storage may hold the record of
\* an earlier sign up.  The relier plays no part in the registries.
InitBase ==
    /\ brokers = [b \in BrokerIds |-> IF b = 1 THEN initialize("base") ELSE NoBroker]
    /\ relier \in {r \in Reliers : "accessType" \notin DOMAIN r}
    /\ session = EmptyObject
    /\ storage \in {EmptyObject, StoredVerification}
    /\ PageLoaded
    /\ Idle

\* The registries of the base broker are changed and read, and its hooks
\* are called.
NextBase ==
    \/ \E n \in ReplacedHooks, v \in Behaviors : setBehavior(1, n, v)
    \/ \E v \in {Bool(TRUE), Bool(FALSE)} : setCapability(1, ChangedCapability, v)
    \/ unsetCapability(1, ChangedCapability)
    \/ \E n \in BehaviorNames : callGetBehavior(1, n)
    \/ \E n \in CapabilityNames : callGetCapability(1, n)
    \/ \E n \in CapabilityNames : callHasCapability(1, n)
    \/ \E h \in BaseHooks, a \in HookAccounts : protoHook(1, h, a)
    \/ return

SpecBase == InitBase /\ [][NextBase]_vars

\* A base broker has been constructed; nothing is stored yet.
InitVerification ==
    /\ brokers = [b \in BrokerIds |-> IF b = 1 THEN initialize("base") ELSE NoBroker]
    /\ relier \in Reliers
    /\ session = EmptyObject
    /\ storage = EmptyObject
    /\ PageLoaded
    /\ Idle

\* Verification data is persisted and cleared for the accounts, and the
\* hooks that end a verification are called, while the relier and the
\* behavior of afterCompleteSignUp change.
NextVerification ==
    \/ \E a \in VerificationAccounts : persistVerificationData(1, a)
    \/ persistHandler
    \/ \E a \in VerificationAccounts : callUnpersistVerificationData(1, a)
    \/ \E a \in VerificationAccounts : afterCompleteSignUp(1, a)
    \/ \E a \in VerificationAccounts : afterCompleteResetPassword(1, a)
    \/ unpersistHandler
    \/ baseHook
    \/ return
    \/ \E v \in Behaviors : setBehavior(1, "afterCompleteSignUp", v)
    \/ \E r \in Reliers : relierSet(r)

SpecVerification == InitVerification /\ [][NextVerification]_vars

\* ---- fetch ----

\* QUERY_PARAMETER_SCHEMA: the names it holds, each validated by Vat.boolean()
QUERY_PARAMETER_SCHEMA == {<<"automatedBrowser">>}

\* Vat.boolean(): 'true' and 'false' are valid and become the booleans
VatBoolean(value) ==
    IF value = Str(<<"true">>) THEN [valid |-> TRUE, value |-> Bool(TRUE)]
    ELSE IF value = Str(<<"false">>) THEN [valid |-> TRUE, value |-> Bool(FALSE)]
    ELSE [valid |-> FALSE, value |-> value]

\* the validation error that names the parameter
InvalidParameterError(name) ==
    [namespace |-> "auth", error |-> "INVALID_PARAMETER", param |-> name]

\* importSearchParamsUsingSchema(schema, Errors): the parameters of the
\* schema that the query string holds are validated and, when all are
\* valid, set on the model; the first invalid one is thrown and nothing is set
importSearchParamsUsingSchema(attributes, search) ==
    LET params == searchParams(search)
        named == {n \in QUERY_PARAMETER_SCHEMA : n \in DOMAIN params}
        invalid == {n \in named : ~VatBoolean(params[n]).valid}
    IN  IF invalid # {}
        THEN [error |-> InvalidParameterError(CHOOSE n \in invalid : TRUE),
              attributes |-> attributes]
        ELSE [error |-> Null,
              attributes |-> [k \in DOMAIN attributes \cup {n[1] : n \in named} |->
                                IF <<k>> \in named THEN VatBoolean(params[<<k>>]).value
                                ELSE attributes[k]]]

\* _isForceAuthUrl that knows the plain path only
isForceAuthUrlOfPlainPath(location) ==
    location.pathname = Str(<<"/", "force_auth">>)

\* __isForceAuthUrl()
_isForceAuthUrl(location) ==
    \/ location.pathname = Str(<<"/", "force_auth">>)
    \/ location.pathname = Str(<<"/", "oauth", "/", "force_auth">>)

\* isForceAuth()
isForceAuth(broker) == Truthy(broker._isForceAuth)

\* isAutomatedBrowser answering for any value that was imported
isAutomatedBrowserWhenSet(broker) == ModelHas(broker.attributes, "automatedBrowser")

\* isAutomatedBrowser()
isAutomatedBrowser(broker) == Truthy(ModelGet(broker.attributes, "automatedBrowser"))

\* fetch(): return p().then(...)
fetch(self) ==
    /\ brokers[self] # NoBroker
    /\ call' = BaseCall("fetch", self, Null, "fetch")
    /\ Defers("fetch")

\* fetch's handler: _isForceAuth is assigned from the path the window has
\* now, then the query parameters are imported, which may throw
fetchHandler ==
    /\ pc = "fetch"
    /\ LET imported == importSearchParamsUsingSchema(brokers[call.self].attributes,
                                                     window.search)
       IN  /\ brokers' = [brokers EXCEPT
                             ![call.self]._isForceAuth = Bool(_isForceAuthUrl(window)),
                             ![call.self].attributes = imported.attributes]
           /\ outcome' = IF imported.error = Null THEN Fulfilled(Undefined)
                         ELSE Rejected(imported.error)
    /\ log' = Append(log, "fetch")
    /\ pc' = "settled"
    /\ UNCHANGED <<pageVars, relier, session, storage, call, generateArg, assertion,
                   oauthParams, rawResult, resultObject, oauthResult, sent, delivery>>

callIsForceAuth(self) ==
    /\ brokers[self] # NoBroker
    /\ call' = BaseCall("isForceAuth", self, Null, "isForceAuth")
    /\ Returns(Fulfilled(Bool(isForceAuth(brokers[self]))), <<>>)

callIsAutomatedBrowser(self) ==
    /\ brokers[self] # NoBroker
    /\ call' = BaseCall("isAutomatedBrowser", self, Null, "isAutomatedBrowser")
    /\ Returns(Fulfilled(Bool(isAutomatedBrowser(brokers[self]))), <<>>)

\* the paths the page is opened on
Pathnames ==
    {Str(<<"/", "signin">>), Str(<<"/", "force_auth">>),
     Str(<<"/", "oauth", "/", "force_auth">>)}

\* the query strings of the page: none, the flag as true and as false, a
\* malformed flag, an unrecognized parameter, and one beside the flag
Searches ==
    {Str(<<>>),
     Str(<<"automatedBrowser", "=", "true">>),
     Str(<<"automatedBrowser", "=", "false">>),
     Str(<<"automatedBrowser", "=", "1">>),
     Str(<<"style", "=", "chromeless">>),
     Str(<<"style", "=", "chromeless", "&", "automatedBrowser", "=", "true">>)}

\* the window goes to another location
windowNavigate(pathname, search) ==
    /\ window' = [pathname |-> pathname, search |-> search]
    /\ UNCHANGED <<brokers, relier, session, storage, view, tabs, flowVars>>

InitFetch ==
    /\ \E type \in {"base", "oauth"} :
          brokers = [b \in BrokerIds |-> IF b = 1 THEN initialize(type) ELSE NoBroker]
    /\ relier = CHOOSE r \in Reliers : "accessType" \notin DOMAIN r
    /\ session = EmptyObject
    /\ storage = EmptyObject
    /\ window \in [pathname : Pathnames, search : Searches]
    /\ view = NoView
    /\ tabs = [t \in TabIds |-> IdleTab]
    /\ Idle

\* The broker is fetched, asked and used while the window changes its
\* location.
NextFetch ==
    \/ fetch(1)
    \/ fetchHandler
    \/ callIsForceAuth(1)
    \/ callIsAutomatedBrowser(1)
    \/ \E l \in Pathnames : \E q \in Searches : windowNavigate(l, q)
    \/ \E v \in {Bool(TRUE), Bool(FALSE)} : setCapability(1, ChangedCapability, v)
    \/ protoHook(1, "afterSignUp", Null)
    \/ return

SpecFetch == InitFetch /\ [][NextFetch]_vars

\* ---- the sign-in view ----

\* VerificationReasons.SIGN_IN and VerificationMethods.EMAIL
VerificationReasonSignIn == Str(<<"login">>)
VerificationMethodEmail == Str(<<"email">>)

\* a second verified account, and an unverified one that is to confirm
\* its sign-in by email
OtherVerifiedAccount ==
    [uid |-> Str(<<"uid2">>), email |-> Str(<<"b@b.c">>), verified |-> Bool(TRUE)]
ConfirmSignInAccount ==
    [uid |-> Str(<<"uid2">>), email |-> Str(<<"b@b.c">>), verified |-> Bool(FALSE),
     verificationMethod |-> VerificationMethodEmail,
     verificationReason |-> VerificationReasonSignIn]

\* the accounts a sign-in ends with
SignInAccounts ==
    {VerifiedAccount, OtherVerifiedAccount, UnverifiedAccount, ConfirmSignInAccount}

\* the relier of the page: without a uid, and opened with either uid
SignInReliers ==
    LET r == CHOOSE x \in Reliers : "accessType" \notin DOMAIN x
    IN  {r, PropSet(r, "uid", Str(<<"uid1">>)), PropSet(r, "uid", Str(<<"uid2">>))}

\* this.navigate(page, { account })
navigate(page, account) == [page |-> page, account |-> account]

\* a call of a method of the view; before keeps the relier's uid at the call
ViewCall(entry, self, account) ==
    [entry |-> entry, self |-> self, account |-> account, extra |-> EmptyObject,
     name |-> entry, before |-> [uid |-> ModelGet(relier, "uid")]]

\* onSignInSuccess taking the account's uid whatever the broker supports
onSignInSuccessWithoutCapabilityCheck(self, account) ==
    /\ pc = "idle"
    /\ brokers[self].type = "base"
    /\ call' = ViewCall("onSignInSuccess", self, account)
    /\ IF ~Truthy(ModelGet(account, "verified"))
       THEN /\ view' = [view EXCEPT !.page = navigate("confirm", account)]
            /\ outcome' = Fulfilled(Undefined)
            /\ log' = <<"navigate">>
            /\ pc' = "settled"
            /\ UNCHANGED relier
       ELSE /\ relier' = IF ModelGet(account, "uid") # ModelGet(relier, "uid")
                         THEN ModelSet(relier, "uid", ModelGet(account, "uid"))
                         ELSE relier
            /\ outcome' = getBehavior(brokers[self], "afterSignIn")
            /\ log' = <<"signin.success", "afterSignIn">>
            /\ pc' = "settled"
            /\ UNCHANGED view
    /\ UNCHANGED <<brokers, session, storage, window, tabs, generateArg, assertion,
                   oauthParams, rawResult, resultObject, oauthResult, sent, delivery>>

\* this.afterSignInBrokerMethod || 'afterSignIn'
brokerMethod ==
    IF Truthy(view.afterSignInBrokerMethod) THEN view.afterSignInBrokerMethod.s[1]
    ELSE "afterSignIn"

\* this.model.get('redirectTo') || 'settings'
redirectTo ==
    IF Truthy(ModelGet(view.model, "redirectTo")) THEN ModelGet(view.model, "redirectTo").s[1]
    ELSE "settings"

\* onSignInSuccess sending every unverified account to 'confirm'
signInSuccessAlwaysConfirm(self, account) ==
    IF ~Truthy(ModelGet(account, "verified"))
    THEN [page |-> navigate("confirm", account),
          relier |-> relier,
          promise |-> Fulfilled(Undefined),
          events |-> <<"navigate">>]
    ELSE [page |-> view.page,
          relier |-> IF /\ ModelGet(account, "uid") # ModelGet(relier, "uid")
                        /\ hasCapability(brokers[self], "allowUidChange")
                     THEN ModelSet(relier, "uid", ModelGet(account, "uid"))
                     ELSE relier,
          promise |-> IF getBehavior(brokers[self], brokerMethod).state = "rejected"
                      THEN getBehavior(brokers[self], brokerMethod)
                      ELSE Pending,
          events |-> <<"signin.success", brokerMethod>>]

\* What onSignInSuccess(account) does before it returns: an unverified
\* account is sent to confirm; for a verified one the relier's uid is
\* corrected when the broker allows it and the broker's method is invoked,
\* the navigation being chained on its promise (Pending: the chain waits)
signInSuccess(self, account) ==
    IF ~Truthy(ModelGet(account, "verified"))
    THEN [page |-> IF /\ ModelGet(account, "verificationReason") = VerificationReasonSignIn
                      /\ ModelGet(account, "verificationMethod") = VerificationMethodEmail
                   THEN navigate("confirm_signin", account)
                   ELSE navigate("confirm", account),
          relier |-> relier,
          promise |-> Fulfilled(Undefined),
          events |-> <<"navigate">>]
    ELSE [page |-> view.page,
          relier |-> IF /\ ModelGet(account, "uid") # ModelGet(relier, "uid")
                        /\ hasCapability(brokers[self], "allowUidChange")
                     THEN ModelSet(relier, "uid", ModelGet(account, "uid"))
                     ELSE relier,
          promise |-> IF getBehavior(brokers[self], brokerMethod).state = "rejected"
                      THEN getBehavior(brokers[self], brokerMethod)
                      ELSE Pending,
          events |-> <<"signin.success", brokerMethod>>]

\* onSignInSuccess(account), called by the screen that completes a sign-in
onSignInSuccess(self, account) ==
    /\ pc = "idle"
    /\ brokers[self].type = "base"
    /\ call' = ViewCall("onSignInSuccess", self, account)
    /\ LET success == signInSuccess(self, account)
       IN  /\ view' = [view EXCEPT !.page = success.page]
           /\ relier' = success.relier
           /\ outcome' = success.promise
           /\ log' = success.events
           /\ pc' = IF success.promise = Pending THEN "then.navigate" ELSE "settled"
    /\ UNCHANGED <<brokers, session, storage, window, tabs, generateArg, assertion,
                   oauthParams, rawResult, resultObject, oauthResult, sent, delivery>>

\* the chained navigation going to 'settings' whatever the model says
navigateHandlerToSettings ==
    /\ pc = "then.navigate"
    /\ view' = [view EXCEPT !.page = navigate("settings", Undefined),
                            !.signIn = IF @ = Pending THEN Fulfilled(Undefined) ELSE @]
    /\ outcome' = Fulfilled(Undefined)
    /\ log' = Append(log, "navigate")
    /\ pc' = "settled"
    /\ UNCHANGED <<brokers, relier, session, storage, window, tabs, call, generateArg,
                   assertion, oauthParams, rawResult, resultObject, oauthResult, sent,
                   delivery>>

\* .then(this.navigate.bind(this, this.model.get('redirectTo') || 'settings', ...))
navigateHandler ==
    /\ pc = "then.navigate"
    /\ view' = [view EXCEPT !.page = navigate(redirectTo, Undefined),
                            !.signIn = IF @ = Pending THEN Fulfilled(Undefined) ELSE @]
    /\ outcome' = Fulfilled(Undefined)
    /\ log' = Append(log, "navigate")
    /\ pc' = "settled"
    /\ UNCHANGED <<brokers, relier, session, storage, window, tabs, call, generateArg,
                   assertion, oauthParams, rawResult, resultObject, oauthResult, sent,
                   delivery>>

InitSignIn ==
    /\ brokers = [b \in BrokerIds |-> IF b = 1 THEN initialize("base") ELSE NoBroker]
    /\ relier \in SignInReliers
    /\ session = EmptyObject
    /\ storage = EmptyObject
    /\ PageLoaded
    /\ Idle

\* Sign-ins succeed on the view while the broker's allowUidChange
\* capability and its afterSignIn behavior are set.
NextSignIn ==
    \/ \E a \in SignInAccounts : onSignInSuccess(1, a)
    \/ navigateHandler
    \/ return
    \/ \E v \in {Bool(TRUE), Bool(FALSE)} : setCapability(1, "allowUidChange", v)
    \/ \E v \in Behaviors : setBehavior(1, "afterSignIn", v)

SpecSignIn == InitSignIn /\ [][NextSignIn]_vars

\* ---- signIn and the sign-in unblock view ----

\* the password the view's model may hold, the codes typed into
\* #unblock_code, and the resume token of the view
SignInPassword == Str(<<"password">>)
UnblockCodes == {Str(<<"validcode">>), Str(<<"incorrec">>)}
ResumeToken == Str(<<"resume">>)

\* an account without any data, for which isDefault() answers true
DefaultAccount == EmptyObject
isDefault(account) == DOMAIN account = {}

\* the accounts signIn may be given
UnblockAccounts == Accounts \cup {DefaultAccount}

\* the views: the model's account (beforeRender leaves a view that has
\* none), password, authPage and redirectTo, and the broker method a
\* subclass names for the end of a sign-in
UnblockViews ==
    {View([account |-> a, password |-> pw, authPage |-> page, redirectTo |-> to], method) :
        a \in UnblockAccounts \ {Null},
        pw \in {Undefined, SignInPassword},
        page \in {Undefined, Str(<<"force_auth">>)},
        to \in {Undefined, Str(<<"settings/avatar/change">>)},
        method \in {Undefined, Str(<<"afterForceAuth">>)}}

\* the failures of user.signInAccount and of a broker method
SignInErrors == {AuthError("INCORRECT_PASSWORD"), AuthError("INVALID_UNBLOCK_CODE")}
HookFailure == Error("broker method failed")

\* AuthErrors.is(err, name)
AuthErrorsIs(err, name) == err = AuthError(name)

\* _getAuthPage()
_getAuthPage ==
    IF Truthy(ModelGet(view.model, "authPage")) THEN ModelGet(view.model, "authPage").s[1]
    ELSE "signin"

\* The promise signIn returns settles, the view having gone to page: the
\* caller of signIn gets it, and submit's .fail handler runs on a failure
signInReturns(entry, promise, page, events) ==
    /\ view' = [view EXCEPT !.signIn = promise, !.page = page]
    /\ log' = log \o events
    /\ IF entry = "submit" /\ promise.state = "rejected"
       THEN outcome' = Pending /\ pc' = "fail"
       ELSE outcome' = promise /\ pc' = "settled"

\* signIn asking for a session token that is not empty
signInFromRequiringToken(entry, self, account, password, options) ==
    /\ pc = "idle"
    /\ brokers[self].type = "base"
    /\ call' = [ViewCall(entry, self, account) EXCEPT
                   !.extra = [password |-> password, options |-> options]]
    /\ IF \/ ~Truthy(account)
          \/ isDefault(account)
          \/ ~Truthy(ModelGet(account, "sessionToken")) /\ ~Truthy(password)
       THEN signInReturns(entry, Rejected(AuthError("UNEXPECTED_ERROR")), view.page,
                          <<"flow.submit">>)
       ELSE /\ view' = [view EXCEPT !.signIn = Pending, !.signInAccount = NotCalled]
            /\ log' = <<"flow.submit", "beforeSignIn">>
            /\ outcome' = Pending
            /\ pc' = "beforeSignIn"
    /\ UNCHANGED <<brokers, relier, session, storage, window, tabs, generateArg, assertion,
                   oauthParams, rawResult, resultObject, oauthResult, sent, delivery>>

\* signIn(account, password): the third argument a caller passes has no
\* parameter to receive it.  entry names the caller: signIn itself, or
\* submit of the unblock view, which chains .fail(onSignInError)
signInFrom(entry, self, account, password, options) ==
    /\ pc = "idle"
    /\ brokers[self].type = "base"
    /\ call' = [ViewCall(entry, self, account) EXCEPT
                   !.extra = [password |-> password, options |-> options]]
    /\ IF \/ ~Truthy(account)
          \/ isDefault(account)
          \/ ~ModelHas(account, "sessionToken") /\ ~Truthy(password)
       THEN signInReturns(entry, Rejected(AuthError("UNEXPECTED_ERROR")), view.page,
                          <<"flow.submit">>)
       ELSE /\ view' = [view EXCEPT !.signIn = Pending, !.signInAccount = NotCalled]
            /\ log' = <<"flow.submit", "beforeSignIn">>
            /\ outcome' = Pending
            /\ pc' = "beforeSignIn"
    /\ UNCHANGED <<brokers, relier, session, storage, window, tabs, generateArg, assertion,
                   oauthParams, rawResult, resultObject, oauthResult, sent, delivery>>

\* a view calls signIn(account, password)
signIn(self, account, password) ==
    signInFrom("signIn", self, account, password, EmptyObject)

\* submit() of the unblock view:
\* this.signIn(account, password, { unblockCode }).fail(...)
submit(self, unblockCode) ==
    signInFrom("submit", self, ModelGet(view.model, "account"),
               ModelGet(view.model, "password"), [unblockCode |-> unblockCode])

\* invokeBrokerMethod('beforeSignIn', account) resolves: the handler calls
\* user.signInAccount(account, password, relier, { resume })
beforeSignInFulfilled ==
    /\ pc = "beforeSignIn"
    /\ view' = [view EXCEPT !.signInAccount =
                   [account |-> call.account, password |-> call.extra.password,
                    relier |-> relier, options |-> [resume |-> ResumeToken]]]
    /\ log' = log \o <<"beforeSignIn.fulfilled", "signInAccount">>
    /\ pc' = "signInAccount"
    /\ UNCHANGED <<brokers, relier, session, storage, window, tabs, call, generateArg,
                   assertion, oauthParams, rawResult, resultObject, oauthResult, sent,
                   delivery, outcome>>

\* a failing beforeSignIn that does not keep signIn from signing in
beforeSignInRejectedSigningIn(error) ==
    /\ pc = "beforeSignIn"
    /\ view' = [view EXCEPT !.signInAccount =
                   [account |-> call.account, password |-> call.extra.password,
                    relier |-> relier, options |-> [resume |-> ResumeToken]]]
    /\ log' = log \o <<"beforeSignIn.rejected", "signInAccount">>
    /\ pc' = "signInAccount"
    /\ UNCHANGED <<brokers, relier, session, storage, window, tabs, call, generateArg,
                   assertion, oauthParams, rawResult, resultObject, oauthResult, sent,
                   delivery, outcome>>

\* invokeBrokerMethod('beforeSignIn', account) fails: no handler of the
\* chain runs
beforeSignInRejected(error) ==
    /\ pc = "beforeSignIn"
    /\ signInReturns(call.entry, Rejected(error), view.page, <<"beforeSignIn.rejected">>)
    /\ UNCHANGED <<brokers, relier, session, storage, window, tabs, call, generateArg,
                   assertion, oauthParams, rawResult, resultObject, oauthResult, sent,
                   delivery>>

\* user.signInAccount resolves with the account: the form prefill is
\* cleared, and the view asks for permissions when the relier needs them,
\* or goes on with onSignInSuccess(account)
signInAccountFulfilled(account, needsPermissions) ==
    /\ pc = "signInAccount"
    /\ IF needsPermissions
       THEN /\ signInReturns(call.entry, Fulfilled(Undefined),
                             navigate("signin_permissions", account),
                             <<"signInAccount.fulfilled", "navigate">>)
            /\ UNCHANGED relier
       ELSE LET success == signInSuccess(call.self, account)
            IN  /\ relier' = success.relier
                /\ IF success.promise = Pending
                   THEN /\ view' = [view EXCEPT !.page = success.page]
                        /\ log' = log \o <<"signInAccount.fulfilled">> \o success.events
                        /\ outcome' = Pending
                        /\ pc' = "then.navigate"
                   ELSE signInReturns(call.entry, success.promise, success.page,
                                      <<"signInAccount.fulfilled">> \o success.events)
    /\ UNCHANGED <<brokers, session, storage, window, tabs, call, generateArg,
                   assertion, oauthParams, rawResult, resultObject, oauthResult, sent,
                   delivery>>

\* user.signInAccount fails
signInAccountRejected(error) ==
    /\ pc = "signInAccount"
    /\ signInReturns(call.entry, Rejected(error), view.page, <<"signInAccount.rejected">>)
    /\ UNCHANGED <<brokers, relier, session, storage, window, tabs, call, generateArg,
                   assertion, oauthParams, rawResult, resultObject, oauthResult, sent,
                   delivery>>

\* the broker method invoked at the end of the sign-in fails: the chained
\* navigation does not run
afterSignInRejected(error) ==
    /\ pc = "then.navigate"
    /\ signInReturns(call.entry, Rejected(error), view.page, <<brokerMethod \o ".rejected">>)
    /\ UNCHANGED <<brokers, relier, session, storage, window, tabs, call, generateArg,
                   assertion, oauthParams, rawResult, resultObject, oauthResult, sent,
                   delivery>>

\* onSignInError swallowing the errors it does not handle
onSignInErrorSwallowing ==
    /\ pc = "fail"
    /\ IF AuthErrorsIs(view.signIn.reason, "INCORRECT_PASSWORD")
       THEN /\ view' = [view EXCEPT !.page =
                           [page |-> _getAuthPage,
                            email |-> ModelGet(call.account, "email"),
                            error |-> view.signIn.reason]]
            /\ log' = Append(log, "navigate")
       ELSE UNCHANGED <<view, log>>
    /\ outcome' = Fulfilled(Undefined)
    /\ pc' = "settled"
    /\ UNCHANGED <<brokers, relier, session, storage, window, tabs, call, generateArg,
                   assertion, oauthParams, rawResult, resultObject, oauthResult, sent,
                   delivery>>

\* onSignInError(account, password, err), the .fail handler of submit
onSignInError ==
    /\ pc = "fail"
    /\ LET err == view.signIn.reason
       IN  IF AuthErrorsIs(err, "INCORRECT_PASSWORD")
           THEN /\ view' = [view EXCEPT !.page =
                               [page |-> _getAuthPage,
                                email |-> ModelGet(call.account, "email"),
                                error |-> err]]
                /\ log' = Append(log, "navigate")
                /\ outcome' = Fulfilled(Undefined)
           ELSE /\ outcome' = Rejected(err)
                /\ UNCHANGED <<view, log>>
    /\ pc' = "settled"
    /\ UNCHANGED <<brokers, relier, session, storage, window, tabs, call, generateArg,
                   assertion, oauthParams, rawResult, resultObject, oauthResult, sent,
                   delivery>>

InitUnblock ==
    /\ brokers = [b \in BrokerIds |-> IF b = 1 THEN initialize("base") ELSE NoBroker]
    /\ relier = PropSet(CHOOSE r \in Reliers : "accessType" \notin DOMAIN r,
                        "uid", Str(<<"uid2">>))
    /\ session = EmptyObject
    /\ storage = EmptyObject
    /\ window = DefaultWindow
    /\ view \in UnblockViews
    /\ tabs = [t \in TabIds |-> IdleTab]
    /\ Idle

\* The unblock view is submitted and signIn is called by other views,
\* while the broker methods and user.signInAccount resolve or fail.
NextUnblock ==
    \/ \E code \in UnblockCodes : submit(1, code)
    \/ \E a \in UnblockAccounts : \E pw \in {Undefined, SignInPassword} : signIn(1, a, pw)
    \/ beforeSignInFulfilled
    \/ beforeSignInRejected(HookFailure)
    \/ \E a \in SignInAccounts : \E needed \in BOOLEAN : signInAccountFulfilled(a, needed)
    \/ \E error \in SignInErrors : signInAccountRejected(error)
    \/ \E a \in SignInAccounts : onSignInSuccess(1, a)
    \/ navigateHandler
    \/ afterSignInRejected(HookFailure)
    \/ onSignInError
    \/ return

SpecUnblock == InitUnblock /\ [][NextUnblock]_vars

\* ---- transformLink ----

\* the longest link, in tokens
MaxLinkLen == 3

\* the tokens links are made of: the slash and two route names
LinkTokens == {"/", "signin", "signup"}

\* the links: every string of at most MaxLinkLen tokens, the empty one,
\* those with one leading slash and those with several among them
Links == UNION {[1..n -> LinkTokens] : n \in 0..MaxLinkLen}

\* link[0] of JavaScript: the first character, undefined for ''
FirstChar(link) == IF Len(link.s) = 0 THEN Undefined ELSE Str(<<link.s[1]>>)

\* the base broker's transformLink
protoTransformLink(link) == link

\* transformLink putting a slash after '/oauth' whatever the link begins with
transformLinkAlwaysPrefixing(link) == Str(<<"/", "oauth", "/">> \o link.s)

\* the OAuth broker's transformLink
transformLink(link) ==
    LET slashed == IF FirstChar(link) # Str(<<"/">>) THEN Str(<<"/">> \o link.s) ELSE link
    IN  Str(<<"/", "oauth">> \o slashed.s)

callTransformLink(self, link) ==
    /\ brokers[self] # NoBroker
    /\ call' = BaseCall("transformLink", self, Null, link)
    /\ Returns(Fulfilled(IF brokers[self].type \in OAuthTypes THEN transformLink(link)
                         ELSE protoTransformLink(link)), <<>>)

InitLink ==
    /\ \E type \in BrokerTypes :
          brokers = [b \in BrokerIds |-> IF b = 1 THEN initialize(type) ELSE NoBroker]
    /\ relier = CHOOSE r \in Reliers : "accessType" \notin DOMAIN r
    /\ session = EmptyObject
    /\ storage = EmptyObject
    /\ PageLoaded
    /\ Idle

\* Links are transformed by the broker of the page.
NextLink ==
    \/ \E link \in Links : callTransformLink(1, Str(link))
    \/ return

SpecLink == InitLink /\ [][NextLink]_vars

\* ---- the OAuth broker's persistVerificationData ----

\* reliers that also hold the keys flag and the action
KeysReliers ==
    {PropSet(PropSet(r, "keys", Bool(TRUE)), "action", Str(<<"signup">>)) : r \in Reliers}

\* the reliers an OAuth verification is persisted for
OAuthReliers == Reliers \cup KeysReliers

\* the object persistVerificationData stores under the session's 'oauth'
SessionOAuth(attributes) ==
    [access_type |-> ModelGet(attributes, "access_type"),
     action |-> ModelGet(attributes, "action"),
     client_id |-> ModelGet(attributes, "clientId"),
     keys |-> ModelGet(attributes, "keys"),
     scope |-> ModelGet(attributes, "scope"),
     state |-> ModelGet(attributes, "state")]

\* persistVerificationData of the OAuth broker: return p().then(...)
persistVerificationDataOfOAuth(self, account) ==
    /\ brokers[self].type \in OAuthTypes
    /\ call' = StorageCall("persistVerificationData", self, account)
    /\ Defers("oauth.persist")

\* its handler: session.set('oauth', ...), then the base method, which
\* defers its own work
oauthPersistHandler ==
    /\ pc = "oauth.persist"
    /\ session' = PropSet(session, "oauth", SessionOAuth(relier))
    /\ log' = Append(log, "session.set")
    /\ pc' = "persist"
    /\ UNCHANGED <<pageVars, brokers, relier, storage, call, generateArg, assertion,
                   oauthParams, rawResult, resultObject, oauthResult, sent, delivery,
                   outcome>>

\* the page's relier is replaced between two calls
relierSetWhenIdle(attributes) == pc = "idle" /\ relierSet(attributes)

InitOAuthPersist ==
    /\ \E type \in OAuthTypes :
          brokers = [b \in BrokerIds |-> IF b = 1 THEN initialize(type) ELSE NoBroker]
    /\ relier \in OAuthReliers
    /\ session \in {EmptyObject, [oauth |-> StoredOAuth]}
    /\ storage = EmptyObject
    /\ PageLoaded
    /\ Idle

\* The OAuth broker persists the verification data of the accounts for the
\* relier of the page.
NextOAuthPersist ==
    \/ \E a \in VerificationAccounts : persistVerificationDataOfOAuth(1, a)
    \/ oauthPersistHandler
    \/ persistHandler
    \/ return
    \/ \E r \in OAuthReliers : relierSetWhenIdle(r)

SpecOAuthPersist == InitOAuthPersist /\ [][NextOAuthPersist]_vars

\* ---- the session's OAuth entry between verification and the flow's end ----

\* the accounts whose verification data the OAuth broker persists here
SessionAccounts == {Null, VerifiedAccount}

InitSession ==
    /\ \E type \in OAuthTypes :
          brokers = [b \in BrokerIds |-> IF b = 1 THEN initialize(type) ELSE NoBroker]
    /\ relier \in Reliers
    /\ session \in {EmptyObject, [oauth |-> StoredOAuth]}
    /\ storage = EmptyObject
    /\ PageLoaded
    /\ Idle

\* The OAuth broker persists verification data and finishes OAuth flows,
\* one call after the other, on the session the tabs of the browser share.
NextSession ==
    \/ \E a \in SessionAccounts : persistVerificationDataOfOAuth(1, a)
    \/ oauthPersistHandler
    \/ persistHandler
    \/ \E a \in Accounts, x \in ExtraData : callFinishOAuthFlow(1, a, x)
    \/ \E a \in Accounts : afterForceAuth(1, a)
    \/ \E a \in Accounts : afterSignIn(1, a)
    \/ \E a \in Accounts : afterSignInConfirmationPoll(1, a)
    \/ \E a \in Accounts : afterSignUpConfirmationPoll(1, a)
    \/ \E a \in Accounts : afterResetPasswordConfirmationPoll(1, a)
    \/ \E value \in Assertions : generateFulfilled(value)
    \/ generateRejected(AssertionFailure)
    \/ \E result \in Results : getCodeFulfilled(result)
    \/ getCodeRejected(GetCodeFailure)
    \/ extendAndSend
    \/ \E promise \in sendOAuthResultToRelier(brokers[1].type) : sendSettled(promise)
    \/ baseHook
    \/ return

SpecSession == InitSession /\ [][NextSession]_vars

\* ---- every hook of the base and of the OAuth broker, to its end ----

\* the accounts the hooks are called with here
SettlingAccounts == {Null, VerifiedAccount, [email |-> Str(<<"a@b.c">>),
                                             sessionToken |-> Str(<<"tokenA">>)]}

\* A broker of one of the three classes has been constructed.
InitHooks ==
    /\ \E type \in {"base"} \cup OAuthTypes :
          brokers = [b \in BrokerIds |-> IF b = 1 THEN initialize(type) ELSE NoBroker]
    /\ relier = [clientId |-> Str(<<"client1">>), scope |-> Str(<<"profile">>),
                 state |-> Str(<<"st1">>), accessType |-> ACCESS_TYPE_OFFLINE,
                 context |-> Str(<<"web">>)]
    /\ session = EmptyObject
    /\ storage = EmptyObject
    /\ PageLoaded
    /\ Idle

\* the promise of assertionLibrary.generate settles
generateSettles ==
    \/ \E value \in Assertions : generateFulfilled(value)
    \/ generateRejected(AssertionFailure)

\* the promise of oAuthClient.getCode settles
getCodeSettles ==
    \/ \E result \in Results : getCodeFulfilled(result)
    \/ getCodeRejected(GetCodeFailure)

\* the promise of sendOAuthResultToRelier settles
sendSettles ==
    \E promise \in sendOAuthResultToRelier(brokers[1].type) : sendSettled(promise)

\* a handler of a settled promise runs
handlerRuns ==
    \/ extendAndSend
    \/ baseHook
    \/ oauthPersistHandler
    \/ persistHandler
    \/ unpersistHandler

\* a hook or a verification method of the broker is called
hookCalled ==
    \/ \E h \in BaseHooks, a \in SettlingAccounts : protoHook(1, h, a)
    \/ \E a \in SettlingAccounts : persistVerificationData(1, a)
    \/ \E a \in SettlingAccounts : persistVerificationDataOfOAuth(1, a)
    \/ \E a \in SettlingAccounts : callUnpersistVerificationData(1, a)
    \/ \E a \in SettlingAccounts : afterCompleteSignUp(1, a)
    \/ \E a \in SettlingAccounts : afterCompleteResetPassword(1, a)
    \/ \E a \in SettlingAccounts : afterForceAuth(1, a)
    \/ \E a \in SettlingAccounts : afterSignIn(1, a)
    \/ \E a \in SettlingAccounts : afterSignInConfirmationPoll(1, a)
    \/ \E a \in SettlingAccounts : afterSignUpConfirmationPoll(1, a)
    \/ \E a \in SettlingAccounts : afterResetPasswordConfirmationPoll(1, a)

NextHooks ==
    \/ hookCalled
    \/ generateSettles
    \/ getCodeSettles
    \/ sendSettles
    \/ handlerRuns
    \/ return

\* The collaborators' promises settle in the end, and the event loop runs
\* the handler of a settled promise; nothing makes a caller call or
\* return.
SpecHooks ==
    /\ InitHooks
    /\ [][NextHooks]_vars
    /\ WF_vars(generateSettles)
    /\ WF_vars(getCodeSettles)
    /\ WF_vars(sendSettles)
    /\ WF_vars(handlerRuns)

\* ---- two tabs of one browser completing a verification ----

\* the accounts whose verification links are opened
TabAccounts == {VerifiedAccount, UnverifiedAccount}

\* the broker methods a verification tab calls
TabEntries == {"afterCompleteSignUp", "unpersistVerificationData"}

\* every tab loads the same application and constructs its own broker
TabBroker == initialize("base")

\* the record the tab's account has in the storage the tabs share
TabRecord(t) ==
    Prop(storage, VerificationKey(
             createSameBrowserVerificationModel(tabs[t].account, "context")))

\* a tab calls afterCompleteSignUp or unpersistVerificationData: both defer
\* the clearing of the record
tabCall(t, entry, account) ==
    /\ tabs[t].pc = "idle"
    /\ tabs' = [tabs EXCEPT ![t] = [entry |-> entry, account |-> account,
                                    found |-> Undefined, pc |-> "unpersist",
                                    outcome |-> Pending]]
    /\ UNCHANGED <<brokers, relier, session, storage, window, view, flowVars>>

\* a tab whose deferred handler fails when the record is no longer there
tabUnpersistHandlerFailingWhenAbsent(t) ==
    /\ tabs[t].pc = "unpersist"
    /\ storage' = clearSameBrowserVerificationModel(storage, tabs[t].account, "context")
    /\ tabs' = [tabs EXCEPT ![t].found = TabRecord(t),
                            ![t].pc = IF TabRecord(t) # Undefined /\ tabs[t].entry \in CompleteHooks
                                      THEN "then.behavior" ELSE "settled",
                            ![t].outcome = IF TabRecord(t) = Undefined
                                           THEN Rejected(Error("record not found"))
                                           ELSE IF tabs[t].entry \in CompleteHooks
                                                THEN Pending ELSE Fulfilled(Undefined)]
    /\ UNCHANGED <<brokers, relier, session, window, view, flowVars>>

\* the tab's deferred handler clears the record of its account; found keeps
\* what the handler met in the storage
tabUnpersistHandler(t) ==
    /\ tabs[t].pc = "unpersist"
    /\ storage' = clearSameBrowserVerificationModel(storage, tabs[t].account, "context")
    /\ tabs' = [tabs EXCEPT ![t].found = TabRecord(t),
                            ![t].pc = IF tabs[t].entry \in CompleteHooks
                                      THEN "then.behavior" ELSE "settled",
                            ![t].outcome = IF tabs[t].entry \in CompleteHooks
                                           THEN Pending ELSE Fulfilled(Undefined)]
    /\ UNCHANGED <<brokers, relier, session, window, view, flowVars>>

\* the tab's hook reads the behavior registered under its name
tabHook(t) ==
    /\ tabs[t].pc = "then.behavior"
    /\ tabs' = [tabs EXCEPT ![t].pc = "settled",
                            ![t].outcome = getBehavior(TabBroker, tabs[t].entry)]
    /\ UNCHANGED <<brokers, relier, session, storage, window, view, flowVars>>

\* the verification link is opened again in the tab
tabReturn(t) ==
    /\ tabs[t].pc = "settled"
    /\ tabs' = [tabs EXCEPT ![t] = IdleTab]
    /\ UNCHANGED <<brokers, relier, session, storage, window, view, flowVars>>

\* the records of the accounts that signed up in this browser
StoredVerifications ==
    VerificationPersist(StoredVerification,
        VerificationSet(createSameBrowserVerificationModel(UnverifiedAccount, "context"),
                        [context |-> Str(<<"web">>)]))

InitTabs ==
    /\ brokers = [b \in BrokerIds |-> IF b = 1 THEN TabBroker ELSE NoBroker]
    /\ relier = CHOOSE r \in Reliers : "accessType" \notin DOMAIN r
    /\ session = EmptyObject
    /\ storage = StoredVerifications
    /\ PageLoaded
    /\ Idle

\* The tabs run their calls one handler at a time, in any order.
NextTabs ==
    \/ \E t \in TabIds : \E e \in TabEntries : \E a \in TabAccounts : tabCall(t, e, a)
    \/ \E t \in TabIds : tabUnpersistHandler(t)
    \/ \E t \in TabIds : tabHook(t)
    \/ \E t \in TabIds : tabReturn(t)

SpecTabs == InitTabs /\ [][NextTabs]_vars

\* ================================================================ claims

\* the query string of a URL, read off its tokens: what follows the first
\* "?", or nothing when there is none
QueryStart(url) ==
    IF \E i \in 1..Len(url.s) : url.s[i] = "?"
    THEN CHOOSE i \in 1..Len(url.s) : url.s[i] = "?" /\ \A j \in 1..(i - 1) : url.s[j] # "?"
    ELSE 0

\* the value of the query parameter `name` of a URL: the tokens between
\* "name =" and the next "&", for the last such parameter; Undefined when
\* the URL has no such parameter
QueryParameter(url, name) ==
    LET u == url.s
        q == QueryStart(url)
        at == {i \in 2..(Len(u) - 1) :
                  q > 0 /\ i > q /\ u[i] = name /\ u[i - 1] \in {"?", "&"} /\ u[i + 1] = "="}
    IN  IF at = {} THEN Undefined
        ELSE LET i == CHOOSE k \in at : \A m \in at : m <= k
                 stop == IF \E j \in (i + 2)..Len(u) : u[j] = "&"
                         THEN CHOOSE j \in (i + 2)..Len(u) :
                                  u[j] = "&" /\ \A k \in (i + 2)..(j - 1) : u[k] # "&"
                         ELSE Len(u) + 1
             IN  Str(SubSeq(u, i + 2, stop - 1))

\* the call in flight went through finishOAuthFlow
ThroughFinishOAuthFlow == call.entry \notin {"none", "getOAuthResult"}

\* the events of the log in which `event` occurs
Occurrences(event) == {i \in 1..Len(log) : log[i] = event}

\* `first` occurs in the log before every occurrence of `then`
Before(first, then) ==
    \A i \in Occurrences(then) : \E j \in Occurrences(first) : j < i

\* C1: sendOAuthResultToRelier is invoked only with a result that has a
\* redirect, a code the validator accepts, the state parsed from that
\* redirect and the action passed as extra data (signin or signup for
\* every hook); when getOAuthResult fails it is never invoked, nothing is
\* substituted, and the call fails with getOAuthResult's error.
C1_OnlyWellFormedResultIsSent ==
    /\ sent # NotCalled =>
          /\ oauthResult.state = "fulfilled"
          /\ Truthy(Prop(sent, "redirect"))
          /\ isOAuthCodeValid(Prop(sent, "code"))
          /\ Prop(sent, "state") =
                 searchParam(<<"state">>, ArrayAt(split(sent.redirect.s, "?"), 1))
          /\ sent.redirect = rawResult.redirect
          /\ DOMAIN sent = DOMAIN rawResult \cup {"state", "code"} \cup DOMAIN call.extra
          /\ Prop(sent, "action") = Prop(call.extra, "action")
          /\ call.entry # "finishOAuthFlow" =>
                 Prop(sent, "action") \in {OAUTH_ACTION_SIGNIN, OAUTH_ACTION_SIGNUP}
    /\ oauthResult.state = "rejected" =>
          /\ sent = NotCalled
          /\ delivery = NoPromise
          /\ "sendOAuthResultToRelier" \notin {log[i] : i \in 1..Len(log)}
          /\ outcome = oauthResult

\* a result was sent by the sign-up hook
C1_Witness ==
    /\ call.entry = "afterSignUpConfirmationPoll"
    /\ sent # NotCalled
    /\ sent.action = OAUTH_ACTION_SIGNUP
    /\ sent.state = Str(<<"st2">>)

\* C2: getOAuthResult with a null account, or an account without a
\* sessionToken, fails with INVALID_TOKEN and calls neither generate nor
\* getCode.
C2_NoSessionTokenFailsBeforeCollaborators ==
    (call # NoCall /\ (call.account = Null \/ ~Truthy(Prop(call.account, "sessionToken")))) =>
        /\ pc = "settled"
        /\ oauthResult = Rejected(AuthError("INVALID_TOKEN"))
        /\ outcome = Rejected(AuthError("INVALID_TOKEN"))
        /\ generateArg = NotCalled
        /\ assertion = NotCalled
        /\ oauthParams = NotCalled
        /\ \A i \in 1..Len(log) : log[i] \notin {"generate", "getCode"}

\* getOAuthResult was called with an account that has no sessionToken
C2_Witness ==
    /\ call.entry = "getOAuthResult"
    /\ call.account # Null
    /\ "sessionToken" \notin DOMAIN call.account
    /\ outcome = Rejected(AuthError("INVALID_TOKEN"))

\* how C3 classifies a result of getCode
C3_Classify(result) ==
    IF result = Undefined THEN Rejected(OAuthError("INVALID_RESULT"))
    ELSE IF Prop(result, "redirect") \in {Undefined, Str(<<>>)}
    THEN Rejected(OAuthError("INVALID_RESULT_REDIRECT"))
    ELSE IF \/ QueryParameter(result.redirect, "code") = Undefined
            \/ QueryParameter(result.redirect, "code") \notin GrammarCodes
    THEN Rejected(OAuthError("INVALID_RESULT_CODE"))
    ELSE [state |-> "fulfilled"]

\* C3: _formatOAuthResult fails with INVALID_RESULT for an absent result,
\* else with INVALID_RESULT_REDIRECT for a result with no redirect, else
\* with INVALID_RESULT_CODE for a redirect with no code parameter or with a
\* code outside the grammar; no other input fails.
C3_FormatFailurePrecedence ==
    rawResult # NotCalled =>
        IF C3_Classify(rawResult).state = "rejected"
        THEN oauthResult = C3_Classify(rawResult)
        ELSE oauthResult.state = "fulfilled"

\* a redirect with a code outside the grammar was rejected
C3_Witness ==
    /\ rawResult # NotCalled
    /\ rawResult # Undefined
    /\ Prop(rawResult, "redirect") = RedirectBadCode
    /\ oauthResult = Rejected(OAuthError("INVALID_RESULT_CODE"))

JustFormatted ==
    /\ rawResult # NotCalled
    /\ log # <<>>
    /\ log[Len(log)] = "_formatOAuthResult"

\* C5 as stated: _formatOAuthResult never modifies the object it is
\* given, so after the call the object has the fields and values it had
\* before (no state or code added).
C5_FormatNeverModifiesResult ==
    JustFormatted => resultObject = rawResult

\* C5 as amended: _formatOAuthResult leaves an absent result and a result
\* without a redirect as they were; on a result with a redirect it
\* assigns the redirect's state and code parameters to the object's state
\* and code, also when it then fails with INVALID_RESULT_CODE, and changes
\* no other field.
C5_FormatAssignsStateAndCodeOnly ==
    JustFormatted =>
        IF rawResult = Undefined \/ ~Truthy(Prop(rawResult, "redirect"))
        THEN resultObject = rawResult
        ELSE /\ DOMAIN resultObject = DOMAIN rawResult \cup {"state", "code"}
             /\ \A k \in DOMAIN rawResult \ {"state", "code"} : resultObject[k] = rawResult[k]
             /\ resultObject.state = QueryParameter(rawResult.redirect, "state")
             /\ resultObject.code = QueryParameter(rawResult.redirect, "code")

\* the call failed with INVALID_RESULT_CODE and left state and code on the
\* object it was given
C5_Witness ==
    /\ JustFormatted
    /\ oauthResult = Rejected(OAuthError("INVALID_RESULT_CODE"))
    /\ "code" \notin DOMAIN rawResult
    /\ "code" \in DOMAIN resultObject
    /\ resultObject.code = Str(<<"nothex">>)
    /\ resultObject.state = Str(<<"st1">>)

\* generate's handler runs in this step
CallsGetCode == pc = "generate" /\ pc' = "getCode"

\* C6: the parameters passed to getCode have the key access_type, with
\* the value 'offline', exactly when the relier's accessType is 'offline'
\* when they are built; for every other accessType, absent included, the
\* key is not there at all.
C6_AccessTypeOnlyWhenOffline ==
    [][CallsGetCode =>
          /\ ("access_type" \in DOMAIN oauthParams') <=>
                 (Prop(relier, "accessType") = Str(<<"offline">>))
          /\ "access_type" \in DOMAIN oauthParams' =>
                 oauthParams'.access_type = Str(<<"offline">>)]_vars

\* getCode was called for a relier whose accessType is 'online', without
\* the key
C6_Witness ==
    /\ pc = "getCode"
    /\ oauthParams.state = Str(<<"st2">>)
    /\ "access_type" \notin DOMAIN oauthParams

\* C7: generate is called with the account's session token and has
\* resolved before getCode is called; getCode receives the assertion
\* generate produced and the relier's clientId, scope and state as they
\* are when the parameters are built.
C7_GenerateThenGetCode ==
    /\ [](/\ generateArg # NotCalled => generateArg = call.account.sessionToken
          /\ Before("generate", "generate.fulfilled")
          /\ Before("generate.fulfilled", "getCode")
          /\ oauthParams # NotCalled =>
                 /\ assertion \in Assertions
                 /\ oauthParams.assertion = assertion
                 /\ {"assertion", "client_id", "scope", "state"} \subseteq DOMAIN oauthParams
                 /\ DOMAIN oauthParams \subseteq
                        {"assertion", "client_id", "scope", "state", "access_type"})
    /\ [][CallsGetCode =>
             /\ oauthParams'.client_id = Prop(relier, "clientId")
             /\ oauthParams'.scope = Prop(relier, "scope")
             /\ oauthParams'.state = Prop(relier, "state")]_vars

\* getCode was called with the second assertion for a relier that has
\* changed since
C7_Witness ==
    /\ pc = "getCode"
    /\ generateArg = Str(<<"tokenA">>)
    /\ oauthParams.assertion = Str(<<"assertionB">>)
    /\ oauthParams.client_id = Str(<<"client2">>)
    /\ relier.clientId = Str(<<"client1">>)

\* the steps of finishOAuthFlow up to the call of sendOAuthResultToRelier
C8_Steps ==
    <<"session.clear", "generate", "generate.fulfilled", "getCode", "getCode.fulfilled",
      "_formatOAuthResult", "extend", "sendOAuthResultToRelier">>

\* C8: finishOAuthFlow clears the session's 'oauth' entry, then obtains
\* the result with getOAuthResult, then merges the extra data into it,
\* then calls sendOAuthResultToRelier once with the merged result, each
\* step after the one before has completed; its promise settles as
\* sendOAuthResultToRelier's does.
C8_FinishOAuthFlowOrder ==
    ThroughFinishOAuthFlow =>
        /\ "oauth" \notin DOMAIN session
        /\ Occurrences("session.clear") = {1}
        /\ \A i \in 1..Len(log), j \in 1..Len(C8_Steps) :
               log[i] = C8_Steps[j] => i = j /\ SubSeq(log, 1, i) = SubSeq(C8_Steps, 1, j)
        /\ Cardinality(Occurrences("sendOAuthResultToRelier")) <= 1
        /\ sent # NotCalled =>
               /\ Occurrences("sendOAuthResultToRelier") = {Len(C8_Steps)}
               /\ oauthResult.state = "fulfilled"
               /\ sent = Extend(oauthResult.value, call.extra)
        /\ delivery.state = "pending" => outcome = Pending
        /\ (delivery.state = "rejected"
              \/ (delivery.state = "fulfilled" /\ call.entry \notin BehaviorHooks)) =>
               outcome = delivery /\ pc = "settled"

\* a direct finishOAuthFlow call resolved with what the delivery resolved with
C8_Witness ==
    /\ call.entry = "finishOAuthFlow"
    /\ call.extra = [action |-> OAUTH_ACTION_SIGNUP]
    /\ sent # NotCalled
    /\ sent.action = OAUTH_ACTION_SIGNUP
    /\ delivery = Fulfilled(Bool(TRUE))
    /\ outcome = delivery

\* the hook's handler runs in this step
ReadsBehavior == pc = "then.behavior" /\ pc' = "settled"

\* C9: afterSignIn, afterForceAuth and afterSignInConfirmationPoll run
\* finishOAuthSignInFlow to completion before they read the registry; on
\* success they resolve to the behavior registered under their own name
\* when it is read; when the OAuth flow fails they fail with its error
\* and resolve to no behavior.
C9_BehaviorReadAfterOAuthFlow ==
    /\ [](call.entry \in BehaviorHooks =>
             /\ call.extra = [action |-> OAUTH_ACTION_SIGNIN]
             /\ Before("sendOAuthResultToRelier.fulfilled", "getBehavior")
             /\ pc = "then.behavior" => delivery.state = "fulfilled" /\ outcome = Pending
             /\ oauthResult.state = "rejected" =>
                    outcome = oauthResult /\ Occurrences("getBehavior") = {}
             /\ delivery.state = "rejected" =>
                    outcome = delivery /\ Occurrences("getBehavior") = {}
             /\ outcome.state = "fulfilled" =>
                    /\ delivery.state = "fulfilled"
                    /\ outcome.value \in Behaviors)
    /\ [][ReadsBehavior =>
             outcome' = Fulfilled(brokers[call.self]._behaviors[call.entry])]_vars

\* afterSignInConfirmationPoll resolved to a behavior that was set while
\* the flow was running, the other two hooks having their default
C9_Witness ==
    /\ call.entry = "afterSignInConfirmationPoll"
    /\ pc = "settled"
    /\ outcome = Fulfilled(NavigateBehavior)
    /\ brokers[1]._behaviors.afterSignIn = HaltBehavior
    /\ brokers[1]._behaviors.afterForceAuth = HaltBehavior

\* a broker is constructed in slot b in this step
Constructs(b) == brokers[b] = NoBroker /\ brokers'[b] # NoBroker

\* the registries C10 expects of a broker right after construction
C10_FreshRegistries(broker) ==
    /\ DOMAIN broker._behaviors = DOMAIN BaseDefaultBehaviors
    /\ DOMAIN broker._capabilities = DOMAIN BaseDefaultCapabilities
    /\ \A n \in DOMAIN BaseDefaultBehaviors :
          broker._behaviors[n] =
              IF /\ broker.type \in OAuthTypes
                 /\ n \in {"afterForceAuth", "afterSignIn", "afterSignInConfirmationPoll"}
              THEN HaltBehavior
              ELSE BaseDefaultBehaviors[n]
    /\ \A n \in DOMAIN BaseDefaultCapabilities :
          broker._capabilities[n] =
              IF broker.type \in OAuthTypes /\ n = "handleSignedInNotification"
              THEN Bool(FALSE)
              ELSE BaseDefaultCapabilities[n]
    /\ broker.type = "base" =>
          /\ broker._behaviors.afterForceAuth = NullBehavior
          /\ broker._behaviors.afterSignIn = NullBehavior
          /\ broker._behaviors.afterSignInConfirmationPoll = NullBehavior
          /\ broker._capabilities.handleSignedInNotification = Bool(TRUE)

\* C10: right after construction an OAuth broker has Halt for
\* afterForceAuth, afterSignIn and afterSignInConfirmationPoll and false
\* for handleSignedInNotification, and the base broker's default for
\* everything else; a base broker, constructed before or after any OAuth
\* broker, has Null for the three hooks and true for
\* handleSignedInNotification, and a construction changes no other broker.
C10_DefaultsAfterConstruction ==
    [][\A b \in BrokerIds :
          Constructs(b) =>
              /\ C10_FreshRegistries(brokers'[b])
              /\ \A c \in BrokerIds \ {b} : brokers'[c] = brokers[c]]_vars

\* an untouched base broker beside an untouched OAuth broker
C10_Witness ==
    \E b, c \in BrokerIds :
        /\ brokers[b].type = "base"
        /\ brokers[c].type = "oauth"
        /\ brokers[b]._behaviors.afterSignInConfirmationPoll = NullBehavior
        /\ brokers[b]._capabilities = BaseDefaultCapabilities
        /\ brokers[c]._behaviors.afterSignInConfirmationPoll = HaltBehavior
        /\ brokers[c]._behaviors.afterSignUp = NullBehavior
        /\ Prop(brokers[c]._capabilities, "handleSignedInNotification") = Bool(FALSE)

\* the hooks that finish the OAuth flow and read no behavior
PollHooks == OAuthHooks \ BehaviorHooks

\* C11: afterSignUpConfirmationPoll finishes the OAuth flow with the
\* action signup, and afterResetPasswordConfirmationPoll, afterSignIn,
\* afterForceAuth and afterSignInConfirmationPoll finish it with signin,
\* which is the action of any result they send; the two poll hooks never
\* read the behavior registry: they settle as the OAuth result or its
\* delivery settled, whatever behavior is registered under their names.
C11_PollHooksFinishFlowOnly ==
    /\ call.entry = "afterSignUpConfirmationPoll" =>
           /\ call.extra = [action |-> OAUTH_ACTION_SIGNUP]
           /\ sent # NotCalled => sent.action = OAUTH_ACTION_SIGNUP
    /\ call.entry \in OAuthHooks \ {"afterSignUpConfirmationPoll"} =>
           /\ call.extra = [action |-> OAUTH_ACTION_SIGNIN]
           /\ sent # NotCalled => sent.action = OAUTH_ACTION_SIGNIN
    /\ call.entry \in PollHooks =>
           /\ Occurrences("getBehavior") = {}
           /\ pc # "then.behavior"
           /\ pc = "settled" =>
                  outcome = IF oauthResult.state = "rejected" THEN oauthResult ELSE delivery
           /\ pc # "settled" => outcome = Pending

\* afterSignUpConfirmationPoll resolved with what the relier answered while
\* another behavior was registered under its name
C11_Witness ==
    /\ call.entry = "afterSignUpConfirmationPoll"
    /\ pc = "settled"
    /\ outcome = Fulfilled(Bool(TRUE))
    /\ sent.action = OAUTH_ACTION_SIGNUP
    /\ brokers[1]._behaviors.afterSignUpConfirmationPoll = NavigateBehavior

\* C12: on an OAuth broker that does not override sendOAuthResultToRelier
\* no call that goes through finishOAuthFlow resolves: once settled it has
\* failed, with the "subclasses must override" error when the OAuth result
\* was valid, and no hook gets to read a behavior.
C12_UnimplementedDeliveryFails ==
    (ThroughFinishOAuthFlow /\ brokers[call.self].type = "oauth") =>
        /\ outcome.state # "fulfilled"
        /\ pc = "settled" => outcome.state = "rejected"
        /\ pc # "then.behavior"
        /\ Occurrences("getBehavior") = {}
        /\ delivery \in {NoPromise, Pending,
                         Rejected(Error("subclasses must override sendOAuthResultToRelier"))}
        /\ (pc = "settled" /\ oauthResult.state = "fulfilled") => outcome = delivery

\* afterSignIn failed on the OAuth broker although the OAuth result was valid
C12_Witness ==
    /\ call.entry = "afterSignIn"
    /\ brokers[1].type = "oauth"
    /\ pc = "settled"
    /\ oauthResult.state = "fulfilled"
    /\ sent.code = Str(<<"c0de1">>)
    /\ outcome = Rejected(Error("subclasses must override sendOAuthResultToRelier"))

\* a caller's call of `entry` returns in this step
ReturnsFrom(entry) == call = NoCall /\ call'.entry = entry

\* C13: a base broker with its registry as constructed gives every hook
\* of the default table its declared default; setBehavior(name, b) makes
\* getBehavior(name) give b and leaves what every other name gives as it
\* was; a getBehavior call returns what the registry holds for the name,
\* so the value of the most recent setBehavior.
C13_GetBehaviorReturnsLastSet ==
    /\ [](brokers[1]._behaviors = initialize("base")._behaviors =>
             \A n \in DOMAIN BaseDefaultBehaviors :
                 getBehavior(brokers[1], n) = Fulfilled(BaseDefaultBehaviors[n]))
    /\ [][\A n \in DOMAIN BaseDefaultBehaviors, v \in Behaviors :
             setBehavior(1, n, v) =>
                 /\ getBehavior(brokers'[1], n) = Fulfilled(v)
                 /\ \A m \in BehaviorNames \ {n} :
                        getBehavior(brokers'[1], m) = getBehavior(brokers[1], m)]_vars
    /\ [][(ReturnsFrom("getBehavior") /\ call'.name \in DOMAIN BaseDefaultBehaviors) =>
             outcome' = Fulfilled(brokers[1]._behaviors[call'.name])]_vars

\* getBehavior returned the behavior set for afterSignIn while another
\* hook has another behavior
C13_Witness ==
    /\ call.entry = "getBehavior"
    /\ call.name = "afterSignIn"
    /\ outcome = Fulfilled(HaltBehavior)
    /\ brokers[1]._behaviors.afterSignIn = HaltBehavior
    /\ brokers[1]._behaviors.afterCompleteSignUp = NavigateBehavior
    /\ brokers[1]._behaviors.afterSignUp = NullBehavior

\* C14: getBehavior of a name the registry holds no behavior for fails
\* with the error "behavior not found for: <name>", and the registries
\* are after the call what they were before it.
C14_UnknownBehaviorFails ==
    [][(ReturnsFrom("getBehavior") /\
        call'.name \notin DOMAIN brokers[call'.self]._behaviors) =>
           /\ outcome' = Rejected(Error("behavior not found for: " \o call'.name))
           /\ brokers' = brokers]_vars

\* the lookup of the unknown name failed on a broker whose registry has
\* been changed
C14_Witness ==
    /\ call.entry = "getBehavior"
    /\ call.name = UnknownBehavior
    /\ outcome = Rejected(Error("behavior not found for: afterSignOut"))
    /\ brokers[1]._behaviors.afterSignIn = NavigateBehavior
    /\ UnknownBehavior \notin DOMAIN brokers[1]._behaviors

\* C15, as stated: hasCapability(name) returns true exactly when the name
\* is set in the capability registry, whatever value is stored.
C15_HasCapabilityWhenSet ==
    [][ReturnsFrom("hasCapability") =>
           outcome' = Fulfilled(Bool(
               call'.name \in DOMAIN brokers[call'.self]._capabilities))]_vars

\* C15, amended: hasCapability(name) returns true exactly when the name is
\* set in the capability registry and the value stored is truthy; for a
\* name set to false and for a name never set it returns false.
C15_HasCapabilityWhenSetAndTruthy ==
    [][ReturnsFrom("hasCapability") =>
           outcome' = Fulfilled(Bool(
               /\ call'.name \in DOMAIN brokers[call'.self]._capabilities
               /\ Truthy(brokers[call'.self]._capabilities[call'.name])))]_vars

\* hasCapability returned false for allowUidChange, which the default
\* table sets to false
C15_Witness ==
    /\ call.entry = "hasCapability"
    /\ call.name = "allowUidChange"
    /\ brokers[1]._capabilities.allowUidChange = Bool(FALSE)
    /\ outcome = Fulfilled(Bool(FALSE))

\* C16: setCapability(name, v) makes getCapability(name) give v;
\* unsetCapability(name) makes it give undefined, which is not the false
\* it gives for a capability set to false; both leave what getCapability
\* gives for every other name as it was; a getCapability call returns what
\* the registry holds for the name.
C16_CapabilitySetGetUnset ==
    /\ [][\A n \in CapabilityNames, v \in {Bool(TRUE), Bool(FALSE)} :
             setCapability(1, n, v) =>
                 /\ getCapability(brokers'[1], n) = v
                 /\ \A m \in CapabilityNames \ {n} :
                        getCapability(brokers'[1], m) = getCapability(brokers[1], m)]_vars
    /\ [][\A n \in CapabilityNames :
             unsetCapability(1, n) =>
                 /\ getCapability(brokers'[1], n) = Undefined
                 /\ getCapability(brokers'[1], n) # Bool(FALSE)
                 /\ \A m \in CapabilityNames \ {n} :
                        getCapability(brokers'[1], m) = getCapability(brokers[1], m)]_vars
    /\ [][ReturnsFrom("getCapability") =>
             outcome' = Fulfilled(Prop(brokers[call'.self]._capabilities, call'.name))]_vars

\* getCapability returned undefined for the capability that was unset
C16_Witness ==
    /\ call.entry = "getCapability"
    /\ call.name = ChangedCapability
    /\ ChangedCapability \notin DOMAIN brokers[1]._capabilities
    /\ outcome = Fulfilled(Undefined)

\* what getBehavior, getCapability and hasCapability return on a broker,
\* name by name
RegistryReads(broker) ==
    [behaviors |-> [n \in BehaviorNames |-> getBehavior(broker, n)],
     capabilities |-> [n \in CapabilityNames |-> getCapability(broker, n)],
     supported |-> [n \in CapabilityNames |-> hasCapability(broker, n)]]

\* C17: a step that changes the registries of one broker, or constructs
\* it, changes nothing that getBehavior, getCapability or hasCapability
\* return on any other broker, of the same class or another; a broker
\* constructed after such changes reads as the defaults of its class.
C17_RegistriesPerInstance ==
    [][\A b \in BrokerIds :
          brokers'[b] # brokers[b] =>
              /\ \A c \in BrokerIds \ {b} :
                     IF brokers[c] = NoBroker
                     THEN brokers'[c] = NoBroker
                     ELSE /\ brokers'[c].type = brokers[c].type
                          /\ RegistryReads(brokers'[c]) = RegistryReads(brokers[c])
              /\ Constructs(b) =>
                     RegistryReads(brokers'[b]) =
                         RegistryReads([type |-> brokers'[b].type,
                                        _behaviors |-> defaultBehaviors(brokers'[b].type),
                                        _capabilities |->
                                            defaultCapabilities(brokers'[b].type)])]_vars

\* two brokers of the OAuth class: one whose behavior and capability were
\* changed, beside one that reads as the class defaults
C17_Witness ==
    \E b, c \in BrokerIds :
        /\ brokers[b].type = "oauth"
        /\ brokers[c].type = "oauth"
        /\ getBehavior(brokers[b], "afterSignIn") = Fulfilled(NavigateBehavior)
        /\ getCapability(brokers[b], "handleSignedInNotification") = Bool(TRUE)
        /\ hasCapability(brokers[b], "handleSignedInNotification")
        /\ getBehavior(brokers[c], "afterSignIn") = Fulfilled(HaltBehavior)
        /\ getCapability(brokers[c], "handleSignedInNotification") = Bool(FALSE)
        /\ ~hasCapability(brokers[c], "handleSignedInNotification")

\* C18: a call of one of the ten hooks on the base broker returns at once
\* the behavior the registry holds under the hook's own name, whatever the
\* account, and leaves the registries and the verification records as
\* they were.
C18_BaseHooksResolveToOwnBehavior ==
    [][\A h \in BaseHooks :
          (ReturnsFrom(h) /\ brokers[call'.self].type = "base") =>
              /\ call'.account \in HookAccounts
              /\ outcome' = Fulfilled(brokers[call'.self]._behaviors[h])
              /\ pc' = "settled"
              /\ brokers' = brokers
              /\ storage' = storage]_vars

\* beforeSignIn resolved to its default for an unverified account while
\* afterSignIn has another behavior and a verification record is stored
C18_Witness ==
    /\ call.entry = "beforeSignIn"
    /\ call.account = UnverifiedAccount
    /\ outcome = Fulfilled(NullBehavior)
    /\ brokers[1]._behaviors.afterSignIn = NavigateBehavior
    /\ storage = StoredVerification

\* the key of the verification record of an account
AccountKey(account) ==
    VerificationKey(createSameBrowserVerificationModel(account, "context"))

\* C19: afterCompleteSignUp and afterCompleteResetPassword clear the
\* account's record before they read their behavior: while either waits
\* to read it and once it has resolved, the storage holds no record for
\* (context, uid), whether one was there at the call or not; the hook
\* resolves to the behavior registered under its own name when it reads
\* it, and fails only for an account that is null.
C19_CompleteHooksClearBeforeResolving ==
    /\ [](call.entry \in CompleteHooks =>
             /\ Before("clear", "getBehavior")
             /\ pc = "then.behavior" =>
                    /\ outcome = Pending
                    /\ AccountKey(call.account) \notin DOMAIN storage
             /\ outcome.state = "fulfilled" =>
                    /\ Occurrences("clear") # {}
                    /\ AccountKey(call.account) \notin DOMAIN storage
                    /\ outcome.value \in Behaviors
             /\ outcome.state = "rejected" =>
                    /\ call.account = Null
                    /\ outcome = Rejected(NullAccountError))
    /\ [][(call.entry \in CompleteHooks /\ ReadsBehavior) =>
             /\ outcome' = Fulfilled(brokers[call.self]._behaviors[call.entry])
             /\ storage' = storage]_vars

\* afterCompleteSignUp resolved to the behavior set for it, the record
\* that was there at the call gone and the other account's record kept
C19_Witness ==
    /\ call.entry = "afterCompleteSignUp"
    /\ call.account = VerifiedAccount
    /\ call.before.record # Undefined
    /\ outcome = Fulfilled(NavigateBehavior)
    /\ AccountKey(VerifiedAccount) \notin DOMAIN storage
    /\ AccountKey(UnverifiedAccount) \in DOMAIN storage

\* the deferred handler of persistVerificationData runs in this step
Persists == call.entry = "persistVerificationData" /\ pc = "persist" /\ pc' = "settled"

\* C20, as stated: once persistVerificationData(account) has resolved, the
\* storage holds under (context, uid) the account's email and the context
\* the relier had when the method was called.
C20_ContextAtTimeOfCall ==
    (call.entry = "persistVerificationData" /\ outcome.state = "fulfilled") =>
        Prop(storage, AccountKey(call.account)) =
            [email |-> call.account.email, context |-> call.before.context]

\* C20, amended: once persistVerificationData(account) has resolved, the
\* storage holds under (context, uid) a record with the account's email;
\* the record was written by the deferred handler, with the context the
\* relier had when the handler ran, which is the context at the call when
\* the relier did not change in between; every other record is kept.
C20_ContextWhenHandlerRuns ==
    /\ []((call.entry = "persistVerificationData" /\ outcome.state = "fulfilled") =>
             /\ AccountKey(call.account) \in DOMAIN storage
             /\ storage[AccountKey(call.account)].email = call.account.email)
    /\ [][(Persists /\ call.account # Null) =>
             /\ outcome' = Fulfilled(Undefined)
             /\ DOMAIN storage' = DOMAIN storage \cup {AccountKey(call.account)}
             /\ \A k \in DOMAIN storage' :
                    storage'[k] =
                        IF k = AccountKey(call.account)
                        THEN [email |-> call.account.email, context |-> relier.context]
                        ELSE storage[k]
             /\ relier.context = call.before.context =>
                    storage'[AccountKey(call.account)].context = call.before.context]_vars

\* persistVerificationData resolved with a record whose context is not the
\* one the relier had at the call, the relier having changed meanwhile
C20_Witness ==
    /\ call.entry = "persistVerificationData"
    /\ call.account = VerifiedAccount
    /\ outcome = Fulfilled(Undefined)
    /\ call.before.context = Str(<<"web">>)
    /\ storage[AccountKey(VerifiedAccount)] =
           [email |-> Str(<<"a@b.c">>), context |-> Str(<<"iframe">>)]

\* the deferred handler of unpersistVerificationData runs in this step
Unpersists == pc = "unpersist" /\ pc' # "unpersist"

\* C21: the handler of unpersistVerificationData leaves no record for
\* the account's (context, uid), whether persistVerificationData had
\* written one or not, and keeps every other record; when there is no
\* record it leaves the storage as it is; unpersistVerificationData
\* itself resolves in both cases.
C21_UnpersistIsIdempotent ==
    [][(Unpersists /\ call.account # Null) =>
           /\ AccountKey(call.account) \notin DOMAIN storage'
           /\ DOMAIN storage' = DOMAIN storage \ {AccountKey(call.account)}
           /\ \A k \in DOMAIN storage' : storage'[k] = storage[k]
           /\ AccountKey(call.account) \notin DOMAIN storage => storage' = storage
           /\ call.entry = "unpersistVerificationData" =>
                  pc' = "settled" /\ outcome' = Fulfilled(Undefined)]_vars

\* unpersistVerificationData resolved for an account that had no record
\* at the call, the record of another account being kept
C21_Witness ==
    /\ call.entry = "unpersistVerificationData"
    /\ call.account = VerifiedAccount
    /\ call.before.record = Undefined
    /\ outcome = Fulfilled(Undefined)
    /\ AccountKey(VerifiedAccount) \notin DOMAIN storage
    /\ AccountKey(UnverifiedAccount) \in DOMAIN storage

\* the account of the model that has the uid
AccountOfUid(uid) == CHOOSE a \in VerificationAccounts \ {Null} : a.uid = uid

\* C22: every record is stored under the uid of an account and holds that
\* account's email; a step changes, creates or removes a record only under
\* (context, uid) of the account the running call was made for, so a call
\* for another uid leaves it alone, also when the two accounts share
\* their email.
C22_NoLeakBetweenAccounts ==
    /\ [](\A k \in DOMAIN storage :
             /\ k.namespace = "context"
             /\ \E a \in VerificationAccounts \ {Null} : a.uid = k.uid
             /\ storage[k].email = AccountOfUid(k.uid).email)
    /\ [][\A k \in DOMAIN storage \cup DOMAIN storage' :
             Prop(storage', k) # Prop(storage, k) =>
                 /\ call.account # Null
                 /\ k = [namespace |-> "context", uid |-> call.account.uid]
                 /\ pc \in {"persist", "unpersist"}]_vars

\* the account that shares the verified account's email has had its record
\* cleared, and the verified account's record is still there
C22_Witness ==
    /\ call.entry = "afterCompleteResetPassword"
    /\ call.account = SameEmailAccount
    /\ call.before.record # Undefined
    /\ outcome.state = "fulfilled"
    /\ [namespace |-> "context", uid |-> Str(<<"uid3">>)] \notin DOMAIN storage
    /\ Prop(storage, [namespace |-> "context", uid |-> Str(<<"uid1">>)]) =
           [email |-> Str(<<"a@b.c">>), context |-> Str(<<"iframe">>)]

\* C23: in every interleaving of the tabs' handlers, a tab whose call has
\* settled has succeeded, whether its handler met the record or found it
\* cleared by another tab, and once a tab has cleared, the record of its
\* account is absent; so when two tabs have completed for the same account
\* both have succeeded and the record is absent.
C23_TabsBothSucceed ==
    \A t \in TabIds :
        /\ tabs[t].pc = "settled" => tabs[t].outcome.state = "fulfilled"
        /\ tabs[t].pc \in {"then.behavior", "settled"} => TabRecord(t) = Undefined

\* tab 2 ran unpersistVerificationData to its end, finding the record
\* cleared, between the two handlers of tab 1's afterCompleteSignUp
C23_Witness ==
    /\ tabs[1].entry = "afterCompleteSignUp"
    /\ tabs[1].account = VerifiedAccount
    /\ tabs[1].found # Undefined
    /\ tabs[1].pc = "then.behavior"
    /\ tabs[2].entry = "unpersistVerificationData"
    /\ tabs[2].account = VerifiedAccount
    /\ tabs[2].found = Undefined
    /\ tabs[2].pc = "settled"
    /\ tabs[2].outcome = Fulfilled(Undefined)

\* the OAuth broker's persistVerificationData has resolved
OAuthPersisted ==
    /\ call # NoCall
    /\ call.entry = "persistVerificationData"
    /\ brokers[call.self].type \in OAuthTypes
    /\ pc = "settled"
    /\ outcome = Fulfilled(Undefined)

\* C24: after the OAuth broker's persistVerificationData resolves, the
\* session's 'oauth' entry holds the relier's client id, scope, state, keys
\* flag and the access type getOAuthResult compares with 'offline', the
\* account's record is stored, and the session entry was written before
\* the record.
C24_SessionHoldsOAuthFields ==
    OAuthPersisted =>
        /\ "oauth" \in DOMAIN session
        /\ session.oauth.client_id = ModelGet(relier, "clientId")
        /\ session.oauth.scope = ModelGet(relier, "scope")
        /\ session.oauth.state = ModelGet(relier, "state")
        /\ session.oauth.keys = ModelGet(relier, "keys")
        /\ session.oauth.access_type = ModelGet(relier, "accessType")
        /\ [namespace |-> "context", uid |-> call.account.uid] \in DOMAIN storage
        /\ log = <<"session.set", "persist">>

\* fetch's handler runs in this step
Fetches == pc = "fetch" /\ pc' = "settled"

\* C25: once a fetch has completed, isForceAuth() keeps its value through
\* every later step, a later fetch on another path included.
C25_IsForceAuthImmutable ==
    [][brokers[1]._isForceAuth # Undefined =>
           isForceAuth(brokers'[1]) = isForceAuth(brokers[1])]_vars

\* C26: isForceAuth() is false before fetch has run; the step in which
\* fetch's handler runs makes it true exactly when the window's path is
\* then '/force_auth' or '/oauth/force_auth'; no other step, a change of
\* the path among them, changes it.
C26_IsForceAuthFromPathAtFetch ==
    /\ ~isForceAuth(brokers[1])
    /\ [][IF Fetches
          THEN isForceAuth(brokers'[1]) <=>
                   window.pathname \in {Str(<<"/", "force_auth">>),
                                        Str(<<"/", "oauth", "/", "force_auth">>)}
          ELSE isForceAuth(brokers'[1]) = isForceAuth(brokers[1])]_vars
    /\ [](brokers[1]._isForceAuth = Undefined => ~isForceAuth(brokers[1]))

\* isForceAuth() has answered true for a fetch made on '/oauth/force_auth'
\* while the window has since gone to '/signin'
C26_Witness ==
    /\ call # NoCall
    /\ call.entry = "isForceAuth"
    /\ outcome = Fulfilled(Bool(TRUE))
    /\ brokers[1]._isForceAuth = Bool(TRUE)
    /\ window.pathname = Str(<<"/", "signin">>)

\* the value the query string gives automatedBrowser
AutomatedBrowserParam == searchParam(<<"automatedBrowser">>, window.search)

\* C27: a fetch whose query string gives automatedBrowser a value that is
\* neither 'true' nor 'false' fails with the validation error that names
\* the parameter and leaves isAutomatedBrowser() as it was, false on a
\* fresh broker; a fetch with no automatedBrowser succeeds whatever other
\* parameters there are, and leaves it alone; isAutomatedBrowser() becomes
\* true only in a fetch that imports automatedBrowser as true, and no
\* other step changes it.
C27_FetchImportsAutomatedBrowser ==
    [][IF Fetches
       THEN /\ AutomatedBrowserParam \notin {Undefined, Str(<<"true">>), Str(<<"false">>)} =>
                  /\ outcome' = Rejected(InvalidParameterError(<<"automatedBrowser">>))
                  /\ isAutomatedBrowser(brokers'[1]) = isAutomatedBrowser(brokers[1])
            /\ AutomatedBrowserParam = Undefined =>
                  /\ outcome' = Fulfilled(Undefined)
                  /\ brokers'[1].attributes = brokers[1].attributes
            /\ AutomatedBrowserParam \in {Str(<<"true">>), Str(<<"false">>)} =>
                  /\ outcome' = Fulfilled(Undefined)
                  /\ isAutomatedBrowser(brokers'[1]) <=> AutomatedBrowserParam = Str(<<"true">>)
       ELSE isAutomatedBrowser(brokers'[1]) = isAutomatedBrowser(brokers[1])]_vars

\* a fetch has failed on a malformed automatedBrowser and
\* isAutomatedBrowser() then answered false
C27_Witness ==
    /\ call # NoCall
    /\ call.entry = "isAutomatedBrowser"
    /\ outcome = Fulfilled(Bool(FALSE))
    /\ brokers[1]._isForceAuth # Undefined
    /\ "automatedBrowser" \notin DOMAIN brokers[1].attributes
    /\ window.search = Str(<<"automatedBrowser", "=", "1">>)

\* the OAuth broker's transformLink has returned
LinkTransformed ==
    /\ call # NoCall
    /\ call.entry = "transformLink"
    /\ brokers[call.self].type \in OAuthTypes
    /\ pc = "settled"

\* the links that do not begin with a slash
BareLinks == {x \in Links : x = <<>> \/ x[1] # "/"}

Times(event) == Cardinality({i \in 1..Len(log) : log[i] = event})

\* C29: within one call generate and getCode are each invoked at most
\* once; when generate fails getCode is not invoked, and when either fails
\* nothing is sent to the relier and the failure is, unchanged, the
\* failure of getOAuthResult and of the method or hook that was called.
C29_CollaboratorFailurePropagates ==
    /\ Times("generate") <= 1
    /\ Times("getCode") <= 1
    /\ Times("generate.rejected") > 0 =>
          /\ Times("getCode") = 0
          /\ pc = "settled"
          /\ oauthResult = Rejected(AssertionFailure)
          /\ outcome = Rejected(AssertionFailure)
          /\ sent = NotCalled
    /\ Times("getCode.rejected") > 0 =>
          /\ pc = "settled"
          /\ oauthResult = Rejected(GetCodeFailure)
          /\ outcome = Rejected(GetCodeFailure)
          /\ sent = NotCalled

\* the afterSignIn hook has failed with the failure of the OAuth client
C29_Witness ==
    /\ call # NoCall
    /\ call.entry = "afterSignIn"
    /\ Times("getCode.rejected") = 1
    /\ outcome = Rejected(GetCodeFailure)

\* onSignInSuccess is called in this step
SignInSucceeds ==
    /\ call = NoCall
    /\ call' # NoCall
    /\ call'.entry = "onSignInSuccess"

\* C30: the relier's uid changes only in a step of onSignInSuccess, and
\* that step sets it to the account's uid exactly when the account is
\* verified, the two uids differ and the broker has the allowUidChange
\* capability; with the default capabilities of the base broker, and for
\* every unverified account, the relier is left as it is.
C30_UidChangesOnlyWhenAllowed ==
    [][IF SignInSucceeds
       THEN IF /\ Truthy(ModelGet(call'.account, "verified"))
               /\ ModelGet(call'.account, "uid") # ModelGet(relier, "uid")
               /\ hasCapability(brokers[1], "allowUidChange")
            THEN relier' = ModelSet(relier, "uid", ModelGet(call'.account, "uid"))
            ELSE /\ relier' = relier
                 /\ brokers[1]._capabilities = NewModel(defaultCapabilities("base")) =>
                        relier' = relier
       ELSE relier' = relier]_vars

\* a verified account with another uid has signed in on a broker that
\* allows the change, and the relier holds the account's uid
C30_Witness ==
    /\ call # NoCall
    /\ call.entry = "onSignInSuccess"
    /\ call.account = OtherVerifiedAccount
    /\ call.before.uid = Str(<<"uid1">>)
    /\ hasCapability(brokers[1], "allowUidChange")
    /\ ModelGet(relier, "uid") = Str(<<"uid2">>)
    /\ view.page = navigate("settings", Undefined)

\* the unblock view's submit has called user.signInAccount
SubmitSignsIn ==
    /\ call # NoCall
    /\ call.entry = "submit"
    /\ view.signInAccount # NotCalled

\* C31: when the unblock view is submitted, the options user.signInAccount
\* is given carry the unblock code that was entered.
C31_UnblockCodeReachesSignInAccount ==
    SubmitSignsIn =>
        Prop(view.signInAccount.options, "unblockCode") = call.extra.options.unblockCode

\* C32: the .fail handler of submit, run on the failure of signIn: for
\* INCORRECT_PASSWORD the view navigates to the model's authPage, or to
\* 'signin' when there is none, with the account's email and the error,
\* and submit resolves; for every other error the view is left where it
\* is and submit fails with the same error.
C32_IncorrectPasswordGoesToAuthPage ==
    [][pc = "fail" =>
          IF view.signIn.reason = AuthError("INCORRECT_PASSWORD")
          THEN /\ view'.page =
                     [page |-> IF ModelGet(view.model, "authPage") = Undefined
                               THEN "signin" ELSE "force_auth",
                      email |-> call.account.email,
                      error |-> AuthError("INCORRECT_PASSWORD")]
               /\ outcome' = Fulfilled(Undefined)
               /\ pc' = "settled"
          ELSE /\ view' = view
               /\ log' = log
               /\ outcome' = Rejected(view.signIn.reason)
               /\ pc' = "settled"]_vars

\* submit has resolved after a sign-in that failed with INCORRECT_PASSWORD,
\* the view being on the model's authPage
C32_Witness ==
    /\ call # NoCall
    /\ call.entry = "submit"
    /\ pc = "settled"
    /\ view.signIn = Rejected(AuthError("INCORRECT_PASSWORD"))
    /\ outcome = Fulfilled(Undefined)
    /\ view.page.page = "force_auth"
    /\ view.page.email = Str(<<"a@b.c">>)

\* the name of the broker method the view invokes at the end of a sign-in
AfterSignInMethod ==
    IF view.afterSignInBrokerMethod = Undefined THEN "afterSignIn" ELSE "afterForceAuth"

C34_BeforeSignInCanPreventSignIn ==
    /\ pc = "beforeSignIn" => view.signInAccount = NotCalled /\ Times("signInAccount") = 0
    /\ Before("beforeSignIn", "beforeSignIn.fulfilled")
    /\ Before("beforeSignIn.fulfilled", "signInAccount")
    /\ Times("beforeSignIn.rejected") > 0 =>
          /\ view.signInAccount = NotCalled
          /\ \A i \in 1..Len(log) :
                 log[i] \notin {"signInAccount", "signin.success", "afterSignIn",
                                "afterForceAuth", "navigate"}
          /\ view.signIn = Rejected(HookFailure)
          /\ pc = "settled" => outcome = Rejected(HookFailure)

\* signIn has failed with the failure of beforeSignIn
C34_Witness ==
    /\ call # NoCall
    /\ call.entry = "signIn"
    /\ log = <<"flow.submit", "beforeSignIn", "beforeSignIn.rejected">>
    /\ outcome = Rejected(HookFailure)
    /\ view.signInAccount = NotCalled

\* signIn is called in this step, by a view or by the unblock view's submit
SignInCalled ==
    /\ call = NoCall
    /\ call' # NoCall
    /\ call'.entry \in {"signIn", "submit"}

\* the accounts and passwords signIn refuses
Refused(account, password) ==
    IF account = Null THEN TRUE
    ELSE \/ DOMAIN account = {}
         \/ "sessionToken" \notin DOMAIN account /\ password = Undefined

\* C35: a call of signIn with no account, with the default account, or with
\* an account without sessionToken and no password fails with
\* UNEXPECTED_ERROR, no broker method having been invoked and
\* user.signInAccount not called; every other call invokes beforeSignIn.
C35_SignInGuard ==
    /\ [][SignInCalled =>
             IF Refused(call'.account, call'.extra.password)
             THEN /\ view'.signIn = Rejected(AuthError("UNEXPECTED_ERROR"))
                  /\ log' = <<"flow.submit">>
                  /\ view'.signInAccount = view.signInAccount
                  /\ call'.entry = "signIn" =>
                         pc' = "settled" /\ outcome' = Rejected(AuthError("UNEXPECTED_ERROR"))
             ELSE /\ log' = <<"flow.submit", "beforeSignIn">>
                  /\ pc' = "beforeSignIn"
                  /\ outcome' = Pending]_vars
    /\ []((call # NoCall /\ call.entry \in {"signIn", "submit"}
               /\ Refused(call.account, call.extra.password)) =>
              log = <<"flow.submit">>)

\* signIn has refused an account without sessionToken and without password
C35_Witness ==
    /\ call # NoCall
    /\ call.entry = "signIn"
    /\ call.account = [email |-> Str(<<"a@b.c">>)]
    /\ call.extra.password = Undefined
    /\ outcome = Rejected(AuthError("UNEXPECTED_ERROR"))
    /\ log = <<"flow.submit">>

\* C36: when onSignInSuccess runs for an account that is not verified, in
\* signIn or called by itself, the view navigates to 'confirm_signin' if
\* the verification reason is SIGN_IN and the method EMAIL, to 'confirm'
\* otherwise, passing the account; no after-sign-in method is invoked, the
\* relier is left alone, and the call resolves without the navigation to
\* redirectTo or 'settings'.
C36_UnverifiedGoesToConfirm ==
    [][\A a \in SignInAccounts :
          (a.verified = Bool(FALSE)
              /\ (signInAccountFulfilled(a, FALSE) \/ onSignInSuccess(1, a))) =>
             /\ view'.page =
                    [page |-> IF /\ ModelGet(a, "verificationReason") = Str(<<"login">>)
                                 /\ ModelGet(a, "verificationMethod") = Str(<<"email">>)
                              THEN "confirm_signin" ELSE "confirm",
                     account |-> a]
             /\ \A i \in 1..Len(log') :
                    log'[i] \notin {"signin.success", "afterSignIn", "afterForceAuth"}
             /\ relier' = relier
             /\ pc' = "settled"
             /\ outcome' = Fulfilled(Undefined)]_vars

\* submit has resolved with the view on 'confirm_signin' for the account
C36_Witness ==
    /\ call # NoCall
    /\ call.entry = "submit"
    /\ pc = "settled"
    /\ outcome = Fulfilled(Undefined)
    /\ view.page = navigate("confirm_signin", ConfirmSignInAccount)
    /\ log[Len(log)] = "navigate"

\* the calls that go through finishOAuthFlow
FinishingCalls == {"finishOAuthFlow"} \cup OAuthHooks

\* C37: from the moment finishOAuthFlow is called, by itself or through one
\* of the OAuth broker's after-hooks, and for as long as that call lasts
\* and after it has resolved or failed (with INVALID_TOKEN before any
\* collaborator was called, or later), the session has no 'oauth' entry;
\* an entry appears in the session only in the handler of a later
\* persistVerificationData.
C37_FinishOAuthFlowClearsSession ==
    /\ []((call # NoCall /\ call.entry \in FinishingCalls) => "oauth" \notin DOMAIN session)
    /\ [][("oauth" \notin DOMAIN session /\ "oauth" \in DOMAIN session') =>
             (call.entry = "persistVerificationData" /\ pc = "oauth.persist")]_vars

\* afterSignIn has failed with INVALID_TOKEN, after an earlier
\* persistVerificationData had stored the OAuth context
C37_Witness ==
    /\ call # NoCall
    /\ call.entry = "afterSignIn"
    /\ pc = "settled"
    /\ outcome = Rejected(AuthError("INVALID_TOKEN"))
    /\ log = <<"session.clear">>
    /\ storage # EmptyObject
    /\ "oauth" \notin DOMAIN session

\* the steps at which a hook waits for a collaborator's promise
AwaitsCollaborator == pc \in {"generate", "getCode", "send"}

\* C38: a hook that has been called ends up resolved or failed when the
\* collaborators' promises settle; until then, and for as long as it waits
\* for a collaborator, its promise is pending; and once it has an outcome
\* that outcome stays as it is until the caller returns.
C38_EveryHookSettlesOnce ==
    /\ (call # NoCall) ~> (pc = "settled" /\ outcome.state \in {"fulfilled", "rejected"})
    /\ []((call # NoCall /\ pc # "settled") => outcome = Pending)
    /\ [](AwaitsCollaborator => outcome = Pending)
    /\ [][(pc = "settled" /\ call' # NoCall) => (outcome' = outcome /\ pc' = "settled")]_vars

\* afterSignIn of a delivering broker has resolved after generate, getCode
\* and sendOAuthResultToRelier had each settled
C38_Witness ==
    /\ call # NoCall
    /\ call.entry = "afterSignIn"
    /\ brokers[1].type = "oauth-subclass"
    /\ pc = "settled"
    /\ outcome.state = "fulfilled"
    /\ delivery.state = "fulfilled"
    /\ log[Len(log)] = "getBehavior"

====
